---- MODULE Spec2Model ----
(***************************************************************************)
(* Congressional trading bot: the backtest engine (src/backtest/engine.py), *)
(* the performance metrics calculator (src/backtest/metrics.py), the       *)
(* strategy policies (src/backtest/strategies.py), the risk manager        *)
(* (src/strategy/risk_manager.py), the signal generator                    *)
(* (src/strategy/signal_generator.py) and its metrics collector            *)
(* (src/optimization/metrics_collector.py).                                *)
(*                                                                         *)
(* Numbers.  Python floats that the code only adds, subtracts, divides and *)
(* compares are modelled as exact rationals [n, d] (d = 0 is +inf).  The   *)
(* one place where the machine representation decides a property is        *)
(* win_rate = len(wins) / total_trades: it is modelled as an IEEE-754      *)
(* binary64 value (53-bit significand, round to nearest, ties to even).    *)
(* Python None is the record None; optional values are always records, so  *)
(* that they compare with None.                                            *)
(***************************************************************************)
EXTENDS Integers, Sequences, FiniteSets, TLC

VARIABLES
    m_results,        \* metrics: the list of result dicts handed to calculate_metrics
    m_report,         \* metrics: <<>> before the call, <<report>> after it
    db,               \* engine: rows of congressional_trades, in rowid order
    holding_periods,  \* engine: BacktestEngine.holding_periods
    oracle,           \* engine: the price source (yfinance) as seen by _get_price
    today,            \* engine: datetime.now().date(), in days
    price_cache,      \* engine: BacktestEngine.price_cache, cache_key -> price or None
    fetched,          \* engine: cache key -> times fetched from the oracle since clear_cache
    last_run,         \* engine: <<>> or <<the last run_backtest call with what it returned>>
    risk,             \* risk manager: <<>> before construction, <<the RiskManager>> after
    risk_call,        \* risk manager: <<>> or <<the last call with its return value>>
    generator,        \* signals: <<>> or <<the SignalGenerator>>
    _metrics_collector, \* signals: the module global, <<>> for None or <<the collector>>
    signal_accuracy,  \* signals: rows of the signal_accuracy table, in rowid order
    utcnow,           \* signals: datetime.utcnow(), in ticks
    signal_call,      \* signals: <<>> or <<the last analyze_ticker call with its result>>
    collector_call,   \* signals: <<>> or <<the last MetricsCollector call>>
    policy,           \* strategies: <<>> or <<the strategy object>>
    policy_call       \* strategies: <<>> or <<the last call on the strategy>>

vars == <<m_results, m_report, db, holding_periods, oracle, today, price_cache,
          fetched, last_run, risk, risk_call, generator, _metrics_collector,
          signal_accuracy, utcnow, signal_call, collector_call, policy, policy_call>>

metricsVars == <<m_results, m_report>>
engineVars == <<db, holding_periods, oracle, today, price_cache, fetched, last_run>>
riskVars == <<risk, risk_call>>
signalVars == <<generator, _metrics_collector, signal_accuracy, utcnow, signal_call,
                collector_call>>
policyVars == <<policy, policy_call>>
liveVars == <<signalVars, policyVars>>

None == [none |-> TRUE]

(***************************************************************************)
(* Exact rationals.                                                        *)
(***************************************************************************)
Abs(x) == IF x < 0 THEN -x ELSE x

RECURSIVE GCD(_, _)
GCD(a, b) == IF b = 0 THEN a ELSE GCD(b, a % b)

Rat(n, d) ==
    LET g == GCD(Abs(n), Abs(d))
        s == IF d < 0 THEN -1 ELSE 1
    IN  [n |-> s * (n \div g), d |-> s * (d \div g)]

RInt(k) == [n |-> k, d |-> 1]
Zero == RInt(0)
Inf == [n |-> 1, d |-> 0]

LCM(a, b) == (a \div GCD(a, b)) * b
RAdd(a, b) ==
    LET l == LCM(a.d, b.d)
    IN  Rat(a.n * (l \div a.d) + b.n * (l \div b.d), l)
RNeg(a) == [n |-> -a.n, d |-> a.d]
RSub(a, b) == RAdd(a, RNeg(b))
RMul(a, b) == Rat(a.n * b.n, a.d * b.d)
RDiv(a, b) == Rat(a.n * b.d, a.d * b.n)
RLt(a, b) == a.n * b.d < b.n * a.d
RLe(a, b) == a.n * b.d <= b.n * a.d
RAbs(a) == [n |-> Abs(a.n), d |-> a.d]
RMax(a, b) == IF RLt(a, b) THEN b ELSE a
RMin(a, b) == IF RLt(b, a) THEN b ELSE a
RFloor(a) == a.n \div a.d

Front(s) == SubSeq(s, 1, Len(s) \div 2)
Back(s) == SubSeq(s, Len(s) \div 2 + 1, Len(s))

\* sums and extrema split the sequence in halves, to keep the evaluation shallow
RECURSIVE RSum(_)
RSum(s) ==
    IF s = <<>> THEN Zero
    ELSE IF Len(s) = 1 THEN s[1]
    ELSE RAdd(RSum(Front(s)), RSum(Back(s)))

RECURSIVE RSeqMax(_)
RSeqMax(s) == IF Len(s) = 1 THEN s[1] ELSE RMax(RSeqMax(Front(s)), RSeqMax(Back(s)))

RECURSIVE RSeqMin(_)
RSeqMin(s) == IF Len(s) = 1 THEN s[1] ELSE RMin(RSeqMin(Front(s)), RSeqMin(Back(s)))

(***************************************************************************)
(* IEEE-754 binary64, for non-negative values.  The 53-bit significand M   *)
(* (2^52 <= M < 2^53) is kept in three limbs m = <<hi, mid, lo>> of 13, 20 *)
(* and 20 bits, M = hi * 2^40 + mid * 2^20 + lo, and [e, m] is the value   *)
(* M * 2^(e - 52); zero has an all-zero significand.                       *)
(***************************************************************************)
Limb == 2 ^ 20
HiOne == 2 ^ 12

F64Zero == [e |-> 0, m |-> <<0, 0, 0>>]

\* the number of bits of the binary numeral of k
RECURSIVE BitLen(_)
BitLen(k) == IF k = 0 THEN 0 ELSE 1 + BitLen(k \div 2)

\* significand + 1, renormalised when it reaches 2^53
F64Inc(e, m) ==
    IF m[3] + 1 < Limb THEN [e |-> e, m |-> <<m[1], m[2], m[3] + 1>>]
    ELSE IF m[2] + 1 < Limb THEN [e |-> e, m |-> <<m[1], m[2] + 1, 0>>]
    ELSE IF m[1] + 1 < 2 * HiOne THEN [e |-> e, m |-> <<m[1] + 1, 0, 0>>]
    ELSE [e |-> e + 1, m |-> <<HiOne, 0, 0>>]

\* round to nearest, ties to even: the kept significand and the dropped part
\* as a fraction num/den of one unit in the last place
F64Round(e, m, num, den) ==
    IF 2 * num > den \/ (2 * num = den /\ m[3] % 2 = 1)
    THEN F64Inc(e, m)
    ELSE [e |-> e, m |-> m]

F64OfInt(k) ==
    IF k = 0 THEN F64Zero
    ELSE [e |-> BitLen(k) - 1, m |-> <<(k * HiOne) \div 2 ^ (BitLen(k) - 1), 0, 0>>]

\* scale k/n into [1, 2): k * 2^(-e) / n
RECURSIVE F64Norm(_, _, _)
F64Norm(k, n, e) ==
    IF k < n THEN F64Norm(2 * k, n, e - 1)
    ELSE IF k >= 2 * n THEN F64Norm(k, 2 * n, e + 1)
    ELSE [k |-> k, n |-> n, e |-> e]

\* the float k / n of two non-negative ints below 2^11, n > 0: long division,
\* one limb at a time
F64Div(k, n) ==
    IF k = 0 THEN F64Zero
    ELSE LET s == F64Norm(k, n, 0)
             t1 == s.k * HiOne
             t2 == (t1 % s.n) * Limb
             t3 == (t2 % s.n) * Limb
         IN  F64Round(s.e, <<t1 \div s.n, t2 \div s.n, t3 \div s.n>>,
                      t3 % s.n, s.n)

\* the float x * n of a float and an int 0 <= n < 2^11: the exact product,
\* limb by limb, then rounded to 53 bits
F64MulInt(x, n) ==
    IF x = F64Zero \/ n = 0 THEN F64Zero
    ELSE LET p3 == x.m[3] * n
             p2 == x.m[2] * n + p3 \div Limb
             p1 == x.m[1] * n + p2 \div Limb
             extra == BitLen(p1 \div HiOne) - 1
             w == 2 ^ extra
             up == Limb \div w
         IN  F64Round(x.e + extra,
                      << p1 \div w,
                         (p1 % w) * up + (p2 % Limb) \div w,
                         (p2 % w) * up + (p3 % Limb) \div w >>,
                      p3 % w, w)

\* the neighbouring floats of a positive float
F64Succ(x) == F64Inc(x.e, x.m)
F64Pred(x) ==
    IF x.m[3] > 0 THEN [e |-> x.e, m |-> <<x.m[1], x.m[2], x.m[3] - 1>>]
    ELSE IF x.m[2] > 0 THEN [e |-> x.e, m |-> <<x.m[1], x.m[2] - 1, Limb - 1>>]
    ELSE IF x.m[1] > HiOne THEN [e |-> x.e, m |-> <<x.m[1] - 1, Limb - 1, Limb - 1>>]
    ELSE [e |-> x.e - 1, m |-> <<2 * HiOne - 1, Limb - 1, Limb - 1>>]

\* 0 <= x <= 1
F64InUnit(x) == x = F64Zero \/ x.e < 0 \/ x = F64OfInt(1)

(***************************************************************************)
(* src/backtest/metrics.py                                                 *)
(***************************************************************************)
\* the dict both degenerate branches return: eight fields
ZeroMetrics(total) ==
    [total_trades |-> total, total_return |-> Zero, avg_return |-> Zero,
     win_rate |-> F64Zero, sharpe_ratio |-> Zero, max_drawdown |-> Zero,
     best_trade |-> Zero, worst_trade |-> Zero]

\* returns = [r['return_pct'] for r in results if r.get('return_pct') is not None]
ReturnsOf(results) ==
    LET have == SelectSeq(results, LAMBDA res : res.return_pct # None)
    IN  [i \in 1..Len(have) |-> have[i].return_pct]

\* a variant that counts a zero return as a win
NonLosses(returns) == SelectSeq(returns, LAMBDA r : RLe(Zero, r))

Wins(returns) == SelectSeq(returns, LAMBDA r : RLt(Zero, r))
Losses(returns) == SelectSeq(returns, LAMBDA r : RLt(r, Zero))

\* np.mean
Mean(s) == RDiv(RSum(s), RInt(Len(s)))

\* np.std(returns, ddof=1) ** 2
SampleVariance(s) ==
    LET mu == Mean(s)
        sq == [i \in 1..Len(s) |-> RMul(RSub(s[i], mu), RSub(s[i], mu))]
    IN  RDiv(RSum(sq), RInt(Len(s) - 1))

\* avg_return / std_dev * sqrt(252) is irrational: it is kept as the pair it is
\* computed from, and is 0.0 for one sample or a zero deviation
SharpeRatio(returns) ==
    IF Len(returns) > 1
    THEN LET var == SampleVariance(returns)
         IN  IF RLt(Zero, var) THEN [mean |-> Mean(returns), variance |-> var]
             ELSE Zero
    ELSE Zero

\* np.cumsum
RECURSIVE CumSum(_)
CumSum(s) ==
    IF Len(s) <= 1 THEN s
    ELSE LET left == CumSum(Front(s))
             right == CumSum(Back(s))
         IN  left \o [i \in 1..Len(right) |-> RAdd(left[Len(left)], right[i])]

\* np.maximum.accumulate
RECURSIVE MaxAccumulate(_)
MaxAccumulate(s) ==
    IF Len(s) <= 1 THEN s
    ELSE LET left == MaxAccumulate(Front(s))
             right == MaxAccumulate(Back(s))
         IN  left \o [i \in 1..Len(right) |-> RMax(left[Len(left)], right[i])]

\* a variant that measures the fall from the highest cumulative sum to the
\* last one
DrawdownToEnd(returns) ==
    LET cumulative_returns == CumSum(returns)
    IN  IF Len(returns) > 0
        THEN RSub(RSeqMax(cumulative_returns), cumulative_returns[Len(returns)])
        ELSE Zero

MaxDrawdown(returns) ==
    LET cumulative_returns == CumSum(returns)
        running_max == MaxAccumulate(cumulative_returns)
        drawdown == [i \in 1..Len(returns) |->
                        RSub(running_max[i], cumulative_returns[i])]
    IN  IF Len(drawdown) > 0 THEN RSeqMax(drawdown) ELSE Zero

ProfitFactor(returns) ==
    LET gross_profit == RSum(Wins(returns))
        gross_loss == RAbs(RSum(Losses(returns)))
    IN  IF RLt(Zero, gross_loss) THEN RDiv(gross_profit, gross_loss) ELSE Inf

calculate_metrics(results) ==
    IF results = <<>> THEN ZeroMetrics(0)
    ELSE LET returns == ReturnsOf(results) IN
    IF returns = <<>> THEN ZeroMetrics(Len(results))
    ELSE LET total_trades == Len(returns)
             wins == Wins(returns)
             losses == Losses(returns)
         IN  [total_trades |-> total_trades,
              total_return |-> RSum(returns),
              avg_return |-> Mean(returns),
              win_rate |-> IF total_trades > 0
                           THEN F64Div(Len(wins), total_trades) ELSE F64Zero,
              sharpe_ratio |-> SharpeRatio(returns),
              max_drawdown |-> MaxDrawdown(returns),
              best_trade |-> RSeqMax(returns),
              worst_trade |-> RSeqMin(returns),
              profit_factor |-> ProfitFactor(returns),
              avg_win |-> IF wins # <<>> THEN Mean(wins) ELSE Zero,
              avg_loss |-> IF losses # <<>> THEN Mean(losses) ELSE Zero,
              total_wins |-> Len(wins),
              total_losses |-> Len(losses)]

SeqRange(s) == {s[i] : i \in 1..Len(s)}

calculate_holding_period_metrics(results, periods) ==
    [period \in SeqRange(periods) |->
        calculate_metrics(SelectSeq(results,
                                    LAMBDA res : res.holding_period = period))]

(***************************************************************************)
(* src/backtest/strategies.py                                              *)
(***************************************************************************)
\* str.lower() on the transaction types that occur
Lower(str) ==
    CASE str = "Purchase" -> "purchase"
      [] str = "Sale" -> "sale"
      [] str = "Sale (Partial)" -> "sale (partial)"
      [] str = "Exchange" -> "exchange"
      [] OTHER -> str

\* the truth value Python gives an optional float: None and 0.0 are false
Truthy(x) == x # None /\ x.n # 0

FollowAllStrategy(min_trade_value, exclude_sales) ==
    [kind |-> "FollowAll", min_trade_value |-> min_trade_value,
     exclude_sales |-> exclude_sales]
TopPerformersStrategy(top_n_politicians, top_politicians) ==
    [kind |-> "TopPerformers", top_n_politicians |-> top_n_politicians,
     top_politicians |-> top_politicians]
LargeTradesStrategy(min_trade_value) ==
    [kind |-> "LargeTrades", min_trade_value |-> min_trade_value]

IsPurchase(trade) == Lower(trade.transaction_type) \in {"purchase", "buy"}

\* a variant that asks for a known amount when a minimum is set
FollowAllKeepsKnown(strategy, trade) ==
    /\ ~(strategy.exclude_sales /\ Lower(trade.transaction_type) \in {"sale", "sell"})
    /\ Truthy(strategy.min_trade_value)
          => /\ trade.estimated_amount # None
             /\ RLe(strategy.min_trade_value, trade.estimated_amount)
    /\ ~(trade.ticker = "" \/ Len(trade.ticker) > 5)

FollowAllKeeps(strategy, trade) ==
    /\ ~(strategy.exclude_sales /\ Lower(trade.transaction_type) \in {"sale", "sell"})
    /\ ~(/\ Truthy(strategy.min_trade_value)
         /\ Truthy(trade.estimated_amount)
         /\ RLt(trade.estimated_amount, strategy.min_trade_value))
    /\ ~(trade.ticker = "" \/ Len(trade.ticker) > 5)

TopPerformersKeeps(strategy, trade) ==
    IF strategy.top_politicians = {} THEN IsPurchase(trade)
    ELSE IsPurchase(trade) /\ trade.politician_name \in strategy.top_politicians

\* a variant that keeps purchases of unknown amount
LargeTradesKeepsUnknown(strategy, trade) ==
    /\ IsPurchase(trade)
    /\ Truthy(trade.estimated_amount)
          => RLe(strategy.min_trade_value, trade.estimated_amount)

LargeTradesKeeps(strategy, trade) ==
    /\ IsPurchase(trade)
    /\ Truthy(trade.estimated_amount)
    /\ RLe(strategy.min_trade_value, trade.estimated_amount)

filter_trades(strategy, trades) ==
    SelectSeq(trades, LAMBDA trade :
        CASE strategy.kind = "FollowAll" -> FollowAllKeeps(strategy, trade)
          [] strategy.kind = "TopPerformers" -> TopPerformersKeeps(strategy, trade)
          [] strategy.kind = "LargeTrades" -> LargeTradesKeeps(strategy, trade))

\* sorted(items, key=lambda x: x[1], reverse=True) one item further: the sort
\* is stable, so an item goes behind the items that are not smaller
InsertByReturn(sorted, item) ==
    SubSeq(sorted, 1, Cardinality({i \in 1..Len(sorted) : RLe(item[2], sorted[i][2])}))
    \o <<item>>
    \o SubSeq(sorted, Cardinality({i \in 1..Len(sorted) : RLe(item[2], sorted[i][2])}) + 1,
              Len(sorted))

RECURSIVE SortedByReturn(_)
SortedByReturn(items) ==
    IF items = <<>> THEN <<>>
    ELSE InsertByReturn(SortedByReturn(SubSeq(items, 1, Len(items) - 1)),
                        items[Len(items)])

\* a variant that adds the new top N to the names already retained
AddTopPoliticians(strategy, politician_performance) ==
    [strategy EXCEPT !.top_politicians =
        @ \cup {SortedByReturn(politician_performance)[i][1] :
                    i \in 1..(IF Len(politician_performance) < strategy.top_n_politicians
                              THEN Len(politician_performance)
                              ELSE strategy.top_n_politicians)}]

\* politician_performance: the items of the dict, <<name, avg return>>, in
\* insertion order
update_top_politicians(strategy, politician_performance) ==
    [strategy EXCEPT !.top_politicians =
        {SortedByReturn(politician_performance)[i][1] :
            i \in 1..(IF Len(politician_performance) < strategy.top_n_politicians
                      THEN Len(politician_performance)
                      ELSE strategy.top_n_politicians)}]

\* 0.01, 0.02 or 0.03 of the portfolio
LargeTradesSize(trade) ==
    IF ~Truthy(trade.estimated_amount) THEN Rat(1, 100)
    ELSE IF RLe(RInt(500000), trade.estimated_amount) THEN Rat(3, 100)
    ELSE IF RLe(RInt(100000), trade.estimated_amount) THEN Rat(2, 100)
    ELSE Rat(1, 100)

get_position_size(strategy, trade) ==
    CASE strategy.kind = "FollowAll" -> Rat(1, 100)
      [] strategy.kind = "TopPerformers" -> Rat(2, 100)
      [] strategy.kind = "LargeTrades" -> LargeTradesSize(trade)

(***************************************************************************)
(* src/backtest/engine.py.  Dates are day numbers.  The price source is    *)
(* yfinance: oracle.dates[ticker] are the days it has a row for,           *)
(* oracle.raises the (ticker, date) lookups at which it raises, and the    *)
(* close of a day is Close.                                                *)
(***************************************************************************)
Tickers == <<"AAPL", "MSFT", "BRK.BX", "TSLA">>
TickerIndex(ticker) == CHOOSE i \in 1..Len(Tickers) : Tickers[i] = ticker

\* closing prices: all divide 100, so that every return is a whole percentage
PriceCycle == <<10, 20, 25, 50, 5, 4>>
Close(ticker, date) ==
    RInt(PriceCycle[((date + 2 * TickerIndex(ticker)) % Len(PriceCycle)) + 1])

\* stock.history(start=start, end=end): the rows of start <= day < end
History(ticker, start, end) ==
    {day \in oracle.dates[ticker] : start <= day /\ day < end}

\* min(hist.index, key=lambda d: abs((d - date).days)): the first of the
\* nearest days, the index being in ascending order
Nearest(index, date) ==
    CHOOSE day \in index :
        \A other \in index :
            \/ Abs(day - date) < Abs(other - date)
            \/ (Abs(day - date) = Abs(other - date) /\ day <= other)

Window == 7

\* a variant that keys the cache by the date alone
CacheKeyByDate(ticker, date) == <<"", date>>

\* cache_key = f"{ticker}_{date.isoformat()}": isoformat has a fixed width,
\* so the key determines the pair
CacheKey(ticker, date) == <<ticker, date>>

\* the engine's mutable state while a run is in progress; hits counts the
\* lookups of the run that the cache answered
EngineState(cache, fetches, hits) ==
    [cache |-> cache, fetched |-> fetches, hits |-> hits]

\* what _get_price caches and returns when the key is not cached
FetchPrice(ticker, date) ==
    IF <<ticker, date>> \in oracle.raises THEN None
    ELSE LET hist == History(ticker, date - Window, date + Window)
         IN  IF hist = {} THEN None
             ELSE IF date \in hist THEN Close(ticker, date)
             ELSE Close(ticker, Nearest(hist, date))

\* the cache miss of _get_price: the answer is stored, None included
Remember(st, cache_key, price) ==
    [price |-> price,
     st |-> EngineState((cache_key :> price) @@ st.cache,
                        (cache_key :> (IF cache_key \in DOMAIN st.fetched
                                       THEN st.fetched[cache_key] ELSE 0) + 1)
                            @@ st.fetched,
                        st.hits)]

\* a variant that looks a key up again when the cached answer is None
GetPriceAgainWhenNone(st, ticker, date) ==
    IF /\ CacheKey(ticker, date) \in DOMAIN st.cache
       /\ st.cache[CacheKey(ticker, date)] # None
    THEN [price |-> st.cache[CacheKey(ticker, date)],
          st |-> EngineState(st.cache, st.fetched, st.hits + 1)]
    ELSE Remember(st, CacheKey(ticker, date), FetchPrice(ticker, date))

\* [price |-> the price or None, st |-> the engine state afterwards]
_get_price(st, ticker, date) ==
    IF CacheKey(ticker, date) \in DOMAIN st.cache
    THEN [price |-> st.cache[CacheKey(ticker, date)],
          st |-> EngineState(st.cache, st.fetched, st.hits + 1)]
    ELSE Remember(st, CacheKey(ticker, date), FetchPrice(ticker, date))

\* trade_id is not a field of the code's BacktestResult: it records which
\* trade the result was simulated from
BacktestResult(trade, holding_period, entry_price, exit_price) ==
    [trade_id |-> trade.id,
     ticker |-> trade.ticker,
     politician_name |-> trade.politician_name,
     transaction_date |-> trade.transaction_date,
     disclosure_date |-> trade.disclosure_date,
     entry_date |-> trade.disclosure_date,
     exit_date |-> trade.disclosure_date + holding_period,
     entry_price |-> entry_price,
     exit_price |-> exit_price,
     return_pct |-> RMul(RDiv(RSub(exit_price, entry_price), entry_price),
                         RInt(100)),
     holding_period |-> holding_period,
     estimated_amount |-> trade.estimated_amount]

\* _simulate_trade once both lookups are made:
\* [result |-> BacktestResult or None, st |-> the engine state afterwards]
Outcome(trade, holding_period, entry, exit) ==
    IF entry.price = None \/ exit.price = None
    THEN [result |-> None, st |-> exit.st]
    ELSE IF entry.price.n = 0   \* ZeroDivisionError, caught
    THEN [result |-> None, st |-> exit.st]
    ELSE [result |-> BacktestResult(trade, holding_period, entry.price, exit.price),
          st |-> exit.st]

\* the exit lookup follows the entry lookup, whatever the entry lookup gave
ExitLookup(trade, holding_period, entry) ==
    Outcome(trade, holding_period, entry,
            _get_price(entry.st, trade.ticker,
                       trade.disclosure_date + holding_period))

\* _simulate_trade from "Get historical prices" on
SimulateAt(st, trade, holding_period) ==
    ExitLookup(trade, holding_period,
               _get_price(st, trade.ticker, trade.disclosure_date))

\* a variant without the check of the exit date against the day of the run
SimulateUnchecked(st, trade, holding_period, now) ==
    SimulateAt(st, trade, holding_period)

_simulate_trade(st, trade, holding_period, now) ==
    IF trade.disclosure_date + holding_period > now   \* don't trade in the future
    THEN [result |-> None, st |-> st]
    ELSE SimulateAt(st, trade, holding_period)

\* query.order_by(disclosure_date): rows of one date stay in rowid order
RECURSIVE OrderByDisclosure(_, _)
OrderByDisclosure(rows, date) ==
    IF \A i \in 1..Len(rows) : rows[i].disclosure_date < date THEN <<>>
    ELSE SelectSeq(rows, LAMBDA row : row.disclosure_date = date)
         \o OrderByDisclosure(rows, date + 1)

\* start_date, end_date: <<>> for None, <<date>> otherwise
_load_trades(start_date, end_date) ==
    OrderByDisclosure(
        SelectSeq(db, LAMBDA row :
            /\ start_date # <<>> => row.disclosure_date >= start_date[1]
            /\ end_date # <<>> => row.disclosure_date <= end_date[1]),
        0)

\* a variant in which nothing is collected once a pair has failed
CollectUntilFailure(acc, trade, sim) ==
    IF sim.result # None /\ acc.failed_tickers = {}
    THEN [acc EXCEPT !.all_results = Append(@, sim.result), !.st = sim.st]
    ELSE [acc EXCEPT !.failed_tickers = @ \cup {trade.ticker}, !.st = sim.st]

\* "if result: all_results.append(result) else: failed_tickers.add(ticker)"
Collect(acc, trade, sim) ==
    IF sim.result # None
    THEN [acc EXCEPT !.all_results = Append(@, sim.result), !.st = sim.st]
    ELSE [acc EXCEPT !.failed_tickers = @ \cup {trade.ticker}, !.st = sim.st]

\* the inner loop of run_backtest: one trade at each holding period, each
\* pair simulated from the state the pair before it left
RECURSIVE SimulatePeriods(_, _, _, _)
SimulatePeriods(acc, trade, periods, now) ==
    IF periods = <<>> THEN acc
    ELSE CHOOSE done \in
            {SimulatePeriods(next, trade, Tail(periods), now) :
                next \in {Collect(acc, trade,
                                  _simulate_trade(acc.st, trade, periods[1], now))}} :
            TRUE

\* the outer loop of run_backtest: the first half of the trades, then the
\* second half from the state the first half left
RECURSIVE SimulateTrades(_, _, _)
SimulateTrades(acc, trades, now) ==
    IF trades = <<>> THEN acc
    ELSE IF Len(trades) = 1
    THEN SimulatePeriods(acc, trades[1], holding_periods, now)
    ELSE CHOOSE done \in
            {SimulateTrades(first, Back(trades), now) :
                first \in {SimulateTrades(acc, Front(trades), now)}} :
            TRUE

_result_to_dict(result) ==
    [ticker |-> result.ticker,
     politician_name |-> result.politician_name,
     entry_date |-> result.entry_date,
     exit_date |-> result.exit_date,
     entry_price |-> result.entry_price,
     exit_price |-> result.exit_price,
     return_pct |-> result.return_pct,
     holding_period |-> result.holding_period,
     estimated_amount |-> result.estimated_amount]

RawLimit == 100
Prefix(seq, len) == SubSeq(seq, 1, IF Len(seq) < len THEN Len(seq) ELSE len)

\* max_trades: <<>> for None, <<N>> otherwise; "if max_trades:" is false for 0
Truncate(filtered, max_trades) ==
    IF max_trades # <<>> /\ max_trades[1] # 0
    THEN Prefix(filtered, max_trades[1])
    ELSE filtered

\* a variant that returns every result
SummaryOfAll(filtered_trades, done, results_dict) ==
    [ret |-> [total_trades_tested |-> Len(filtered_trades),
              successful_trades |-> Len(done.all_results),
              failed_tickers |-> done.failed_tickers,
              overall_metrics |-> calculate_metrics(results_dict),
              metrics_by_holding_period |->
                  calculate_holding_period_metrics(results_dict, holding_periods),
              raw_results |-> done.all_results],
     filtered_trades |-> filtered_trades,
     all_results |-> done.all_results,
     st |-> done.st]

\* the dictionary run_backtest returns, as ret. filtered_trades and
\* all_results are not returned by the code: they are kept to state what a
\* run did.
Summary(filtered_trades, done, results_dict) ==
    [ret |-> [total_trades_tested |-> Len(filtered_trades),
              successful_trades |-> Len(done.all_results),
              failed_tickers |-> done.failed_tickers,
              overall_metrics |-> calculate_metrics(results_dict),
              metrics_by_holding_period |->
                  calculate_holding_period_metrics(results_dict, holding_periods),
              raw_results |-> Prefix(done.all_results, RawLimit)],
     filtered_trades |-> filtered_trades,
     all_results |-> done.all_results,
     st |-> done.st]

Results(filtered_trades, done) ==
    Summary(filtered_trades, done,
            [i \in 1..Len(done.all_results) |-> _result_to_dict(done.all_results[i])])

Simulate(st, filtered_trades, now) ==
    Results(filtered_trades,
            SimulateTrades([all_results |-> <<>>, failed_tickers |-> {}, st |-> st],
                           filtered_trades, now))

run_backtest(st, strategy, start_date, end_date, max_trades, now) ==
    Simulate(st,
             Truncate(filter_trades(strategy, _load_trades(start_date, end_date)),
                      max_trades),
             now)

(***************************************************************************)
(* The engine: one BacktestEngine over a database and a price source that  *)
(* do not change, called again and again while the date moves on.          *)
(***************************************************************************)
Trade(id, politician_name, ticker, transaction_type, estimated_amount, transaction_date, disclosure_date) ==
    [id |-> id, politician_name |-> politician_name, ticker |-> ticker,
     transaction_type |-> transaction_type, estimated_amount |-> estimated_amount,
     transaction_date |-> transaction_date, disclosure_date |-> disclosure_date]

TradesA ==
    << Trade(1, "Pelosi", "AAPL", "Purchase", RInt(15000), 0, 2),
       Trade(2, "Pelosi", "MSFT", "Sale", RInt(75000), 1, 3),
       Trade(3, "Tuberville", "AAPL", "Purchase", None, 1, 3),
       Trade(4, "Tuberville", "BRK.BX", "Purchase", RInt(600000), 2, 5),
       Trade(5, "Crenshaw", "TSLA", "Purchase", RInt(250000), 4, 6) >>
\* rowid order is not disclosure order
TradesB ==
    << Trade(1, "Crenshaw", "TSLA", "Purchase", RInt(250000), 4, 6),
       Trade(2, "Pelosi", "AAPL", "Purchase", RInt(15000), 0, 2),
       Trade(3, "Pelosi", "AAPL", "Sale (Partial)", RInt(8000), 1, 2) >>

\* fifteen purchases of one ticker, all disclosed on day 0
TradesC ==
    [i \in 1..15 |-> Trade(i, "Pelosi", "AAPL", "Purchase", RInt(60000), 0, 0)]

TradingDays == {day \in 0..20 : day % 7 \notin {5, 6}}

\* a row for every ticker on every trading day
OracleDaily(raises) ==
    [dates |-> [ticker \in SeqRange(Tickers) |-> TradingDays], raises |-> raises]
\* two rows for AAPL, one for BRK.BX, nothing for the other tickers
OracleSparse ==
    [dates |-> [ticker \in SeqRange(Tickers) |->
                    IF ticker = "AAPL" THEN {0, 14}
                    ELSE IF ticker = "BRK.BX" THEN {12} ELSE {}],
     raises |-> {}]

\* the worlds an engine is started in; the default holding periods
\* [30, 60, 90] are scaled to days of this calendar
Worlds ==
    { [db |-> TradesA, holding_periods |-> <<2, 5>>, oracle |-> OracleDaily({})],
      [db |-> TradesA, holding_periods |-> <<2, 5>>,
       oracle |-> OracleDaily({<<"AAPL", 4>>, <<"TSLA", 6>>})],
      [db |-> TradesA, holding_periods |-> <<3>>, oracle |-> OracleSparse],
      [db |-> TradesB, holding_periods |-> <<3>>, oracle |-> OracleDaily({})],
      [db |-> TradesC, holding_periods |-> <<1, 2, 3, 4, 5, 6, 7>>,
       oracle |-> OracleSparse] }

Clock == {3, 8}

Strategies ==
    { FollowAllStrategy(None, TRUE),
      FollowAllStrategy(RInt(50000), FALSE),
      TopPerformersStrategy(10, {"Pelosi"}),
      LargeTradesStrategy(RInt(50000)) }
DateRanges == {<< <<>>, <<>> >>, << <<3>>, <<5>> >>, << <<7>>, <<>> >>}
MaxTradesValues == {<<>>, <<0>>, <<1>>}

Init ==
    /\ \E world \in Worlds :
          /\ db = world.db
          /\ holding_periods = world.holding_periods
          /\ oracle = world.oracle
    /\ today \in Clock
    /\ price_cache = <<>>
    /\ fetched = <<>>
    /\ last_run = <<>>
    /\ m_results = <<>> /\ m_report = <<>>
    /\ risk = <<>> /\ risk_call = <<>>
    /\ generator = <<>> /\ _metrics_collector = <<>> /\ signal_accuracy = <<>>
    /\ utcnow = 0 /\ signal_call = <<>> /\ collector_call = <<>>
    /\ policy = <<>> /\ policy_call = <<>>

RunBacktest ==
    \E strategy \in Strategies, range \in DateRanges, max_trades \in MaxTradesValues :
        \E out \in {run_backtest(EngineState(price_cache, fetched, 0), strategy,
                                 range[1], range[2], max_trades, today)} :
            /\ price_cache' = out.st.cache
            /\ fetched' = out.st.fetched
            /\ last_run' = << [strategy |-> strategy, start_date |-> range[1],
                               end_date |-> range[2], max_trades |-> max_trades,
                               today |-> today, ret |-> out.ret,
                               filtered_trades |-> out.filtered_trades,
                               all_results |-> out.all_results,
                               from_cache |-> /\ out.st.hits > 0
                                              /\ DOMAIN out.st.cache
                                                   = DOMAIN price_cache] >>
            /\ UNCHANGED <<db, holding_periods, oracle, today, metricsVars, riskVars, liveVars>>

clear_cache ==
    /\ price_cache' = <<>>
    /\ fetched' = <<>>
    /\ UNCHANGED <<db, holding_periods, oracle, today, last_run, metricsVars, riskVars, liveVars>>

\* datetime.now() moves on between calls
Tick ==
    /\ \E later \in Clock : later > today /\ today' = later
    /\ UNCHANGED <<db, holding_periods, oracle, price_cache, fetched, last_run,
                   metricsVars, riskVars, liveVars>>

Next == RunBacktest \/ clear_cache \/ Tick

Spec == Init /\ [][Next]_vars

(***************************************************************************)
(* calculate_metrics as a function of its argument: the argument is drawn  *)
(* from the short lists over a few returns (None included) and from the    *)
(* long lists made of a block of wins, a block of losses and a block of    *)
(* zero returns.                                                           *)
(***************************************************************************)
MaxLen == 3
MaxBlock == 22

ReturnValues == {RInt(-3), RInt(-1), Zero, RInt(2), RInt(5), None}

ResultDict(ret) == [return_pct |-> ret, holding_period |-> 30]

RECURSIVE SeqsUpTo(_, _)
SeqsUpTo(S, len) ==
    IF len = 0 THEN {<<>>}
    ELSE LET shorter == SeqsUpTo(S, len - 1)
         IN  shorter \cup {Append(sq, x) : sq \in shorter, x \in S}

\* w wins, l losses, then z zero returns (none when z < 0)
Block(w, l, z) ==
    [i \in 1..(w + l + (IF z > 0 THEN z ELSE 0)) |->
        ResultDict(IF i <= w THEN RInt(2) ELSE IF i <= w + l THEN RInt(-1) ELSE Zero)]

MetricInputs ==
    SeqsUpTo({ResultDict(ret) : ret \in ReturnValues}, MaxLen)
    \cup UNION {{Block(w, l, MaxBlock - w - l), Block(w, l, 0)} :
                    w \in 0..MaxBlock, l \in 0..MaxBlock}

IdleEngine ==
    /\ db = <<>> /\ holding_periods = <<>> /\ oracle = <<>> /\ today = 0
    /\ price_cache = <<>> /\ fetched = <<>> /\ last_run = <<>>
IdleRisk == risk = <<>> /\ risk_call = <<>>
IdleMetrics == m_results = <<>> /\ m_report = <<>>
IdleSignals ==
    /\ generator = <<>> /\ _metrics_collector = <<>> /\ signal_accuracy = <<>>
    /\ utcnow = 0 /\ signal_call = <<>> /\ collector_call = <<>>
IdlePolicy == policy = <<>> /\ policy_call = <<>>

InitMetrics ==
    /\ m_results \in MetricInputs
    /\ m_report = <<>>
    /\ IdleEngine /\ IdleRisk /\ IdleSignals /\ IdlePolicy

CalculateMetrics ==
    /\ m_report = <<>>
    /\ m_report' = <<calculate_metrics(m_results)>>
    /\ UNCHANGED <<m_results, engineVars, riskVars, liveVars>>

NextMetrics == CalculateMetrics

SpecMetrics == InitMetrics /\ [][NextMetrics]_vars

(***************************************************************************)
(* src/strategy/risk_manager.py.  Prices and balances are dollar amounts,  *)
(* kept as rationals; a call returns a value or raises.                    *)
(***************************************************************************)
Return(value) == [returns |-> value]
Raise(exception) == [raises |-> exception]

\* str(k) of a natural number
Digit(k) == SubSeq("0123456789", k + 1, k + 1)

RECURSIVE Decimal(_)
Decimal(k) == IF k < 10 THEN Digit(k) ELSE Decimal(k \div 10) \o Digit(k % 10)

RECURSIVE ZeroPad(_, _)
ZeroPad(str, width) == IF Len(str) >= width THEN str ELSE ZeroPad("0" \o str, width)

\* the nearest integer of a value that is not negative, ties to even
RoundHalfEven(a) ==
    IF RLt(RSub(RMul(RInt(2), a), RInt(2 * RFloor(a))), RInt(1)) THEN RFloor(a)
    ELSE IF RLt(RInt(1), RSub(RMul(RInt(2), a), RInt(2 * RFloor(a)))) THEN RFloor(a) + 1
    ELSE IF RFloor(a) % 2 = 0 THEN RFloor(a)
    ELSE RFloor(a) + 1

\* the digits of format(x, ".<places>f") from x scaled by 10^places
FixedDigits(scaled, places) ==
    IF places = 0 THEN Decimal(scaled)
    ELSE Decimal(scaled \div (10 ^ places)) \o "."
         \o ZeroPad(Decimal(scaled % (10 ^ places)), places)

\* format(x, ".<places>f")
FormatFixed(x, places) ==
    (IF x.n < 0 THEN "-" ELSE "")
    \o FixedDigits(RoundHalfEven(RMul(RAbs(x), RInt(10 ^ places))), places)

\* format(x, ".<places>%")
FormatPercent(x, places) == FormatFixed(RMul(x, RInt(100)), places) \o "%"

RiskConfig(profit_threshold, stop_loss, max_position_size, max_positions, min_position_value) ==
    [profit_threshold |-> profit_threshold, stop_loss |-> stop_loss,
     max_position_size |-> max_position_size, max_positions |-> max_positions,
     min_position_value |-> min_position_value]

\* the defaults of the dataclass: 0.20, -0.10, 0.05, 10, 1000
DefaultRiskConfig == RiskConfig(Rat(1, 5), Rat(-1, 10), Rat(1, 20), 10, RInt(1000))

\* dict.get(key, default)
Get(dict, key, default) == IF key \in DOMAIN dict THEN dict[key] ELSE default

\* RiskManager.__init__: config is a RiskConfig or None, risk_config the
\* risk_management section of the configuration file, read when config is None
RiskManager(config, risk_config) ==
    IF config = None
    THEN [config |-> RiskConfig(
                Get(risk_config, "profit_threshold", DefaultRiskConfig.profit_threshold),
                Get(risk_config, "stop_loss", DefaultRiskConfig.stop_loss),
                Get(risk_config, "max_position_size", DefaultRiskConfig.max_position_size),
                Get(risk_config, "max_positions", DefaultRiskConfig.max_positions),
                Get(risk_config, "min_position_value",
                    DefaultRiskConfig.min_position_value))]
    ELSE [config |-> config]

Position(ticker, quantity, average_entry_price) ==
    [ticker |-> ticker, quantity |-> quantity,
     average_entry_price |-> average_entry_price]

\* a variant that checks the stop loss before the profit threshold
ExitDecisionStopFirst(self, profit_pct) ==
    IF RLe(profit_pct, self.config.stop_loss)
    THEN << TRUE, << "Stop loss triggered at " \o FormatPercent(profit_pct, 2) >> >>
    ELSE IF RLe(self.config.profit_threshold, profit_pct)
    THEN << TRUE, << FormatPercent(self.config.profit_threshold, 0)
                     \o " profit threshold reached" >> >>
    ELSE << FALSE, <<>> >>

\* the two checks of should_exit_position on the computed profit_pct:
\* <<should_exit, exit_reason>>, exit_reason <<>> for None
ExitDecision(self, profit_pct) ==
    IF RLe(self.config.profit_threshold, profit_pct)
    THEN << TRUE, << FormatPercent(self.config.profit_threshold, 0)
                     \o " profit threshold reached" >> >>
    ELSE IF RLe(profit_pct, self.config.stop_loss)
    THEN << TRUE, << "Stop loss triggered at " \o FormatPercent(profit_pct, 2) >> >>
    ELSE << FALSE, <<>> >>

should_exit_position(self, position, current_price) ==
    IF position.average_entry_price.n = 0 THEN Raise("ZeroDivisionError")
    ELSE Return(ExitDecision(self,
                    RDiv(RSub(current_price, position.average_entry_price),
                         position.average_entry_price)))

\* the fields of an ExecutedTrade that the risk manager reads
ExecutedTrade(ticker, quantity, entry_price, status) ==
    [ticker |-> ticker, quantity |-> quantity, entry_price |-> entry_price,
     status |-> status]

\* a variant that evaluates the exit whatever the status of the trade
ExitTradeWhateverStatus(self, trade, current_price) ==
    IF trade.entry_price.n = 0 THEN Raise("ZeroDivisionError")
    ELSE Return(ExitDecision(self,
                    RDiv(RSub(current_price, trade.entry_price), trade.entry_price)))

should_exit_trade(self, trade, current_price) ==
    IF trade.status # "open" THEN Return(<< FALSE, <<>> >>)
    ELSE IF trade.entry_price.n = 0 THEN Raise("ZeroDivisionError")
    ELSE Return(ExitDecision(self,
                    RDiv(RSub(current_price, trade.entry_price), trade.entry_price)))

\* int(x): towards zero
RTrunc(a) == IF a.n >= 0 THEN RFloor(a) ELSE -RFloor(RNeg(a))

\* calculate_position_size from "Calculate shares" on
SharesFor(max_dollars, stock_price) ==
    IF stock_price.n = 0 THEN Raise("ZeroDivisionError")
    ELSE IF RTrunc(RDiv(max_dollars, stock_price)) < 1 THEN Return(0)
    ELSE Return(RTrunc(RDiv(max_dollars, stock_price)))

\* a variant without the check of the minimum position value
SizeWithoutMinimum(self, account_balance, stock_price, current_positions_count) ==
    IF current_positions_count >= self.config.max_positions THEN Return(0)
    ELSE SharesFor(RMul(account_balance, self.config.max_position_size), stock_price)

calculate_position_size(self, account_balance, stock_price, current_positions_count) ==
    IF current_positions_count >= self.config.max_positions THEN Return(0)
    ELSE IF RLt(RMul(account_balance, self.config.max_position_size),
                self.config.min_position_value)
    THEN Return(0)
    ELSE SharesFor(RMul(account_balance, self.config.max_position_size), stock_price)

\* a variant that checks the position size limit before the funds
ValidateCostLimitFirst(self, total_cost, account_balance, max_allowed) ==
    IF RLt(max_allowed, total_cost)
    THEN << FALSE, << "Position size ($" \o FormatFixed(total_cost, 2)
                      \o ") exceeds limit ($" \o FormatFixed(max_allowed, 2)
                      \o ")" >> >>
    ELSE IF RLt(account_balance, total_cost)
    THEN << FALSE, << "Insufficient funds (need $" \o FormatFixed(total_cost, 2)
                      \o ", have $" \o FormatFixed(account_balance, 2) \o ")" >> >>
    ELSE IF RLt(total_cost, self.config.min_position_value)
    THEN << FALSE, << "Position value ($" \o FormatFixed(total_cost, 2)
                      \o ") below minimum ($"
                      \o FormatFixed(self.config.min_position_value, 2) \o ")" >> >>
    ELSE << TRUE, <<>> >>

\* validate_trade from "Check if we have enough cash" on:
\* <<is_valid, rejection_reason>>, rejection_reason <<>> for None
ValidateCost(self, total_cost, account_balance, max_allowed) ==
    IF RLt(account_balance, total_cost)
    THEN << FALSE, << "Insufficient funds (need $" \o FormatFixed(total_cost, 2)
                      \o ", have $" \o FormatFixed(account_balance, 2) \o ")" >> >>
    ELSE IF RLt(total_cost, self.config.min_position_value)
    THEN << FALSE, << "Position value ($" \o FormatFixed(total_cost, 2)
                      \o ") below minimum ($"
                      \o FormatFixed(self.config.min_position_value, 2) \o ")" >> >>
    ELSE IF RLt(max_allowed, total_cost)
    THEN << FALSE, << "Position size ($" \o FormatFixed(total_cost, 2)
                      \o ") exceeds limit ($" \o FormatFixed(max_allowed, 2)
                      \o ")" >> >>
    ELSE << TRUE, <<>> >>

validate_trade(self, ticker, quantity, price, account_balance, current_positions_count) ==
    IF current_positions_count >= self.config.max_positions
    THEN Return(<< FALSE, << "Max positions ("
                             \o Decimal(self.config.max_positions)
                             \o ") reached" >> >>)
    ELSE Return(ValidateCost(self, RMul(RInt(quantity), price), account_balance,
                             RMul(account_balance, self.config.max_position_size)))

(***************************************************************************)
(* The risk manager: one RiskManager is constructed, from a RiskConfig or  *)
(* from the configuration file, and then called.                           *)
(***************************************************************************)
RiskConfigs ==
    { DefaultRiskConfig,
      RiskConfig(Rat(1, 5), Rat(-1, 10), Rat(1, 20), 5, RInt(1000)),
      RiskConfig(Rat(1, 10), Rat(-1, 20), Rat(1, 2), 2, RInt(100)),
      \* thresholds the wrong way round
      RiskConfig(Rat(1, 20), Rat(1, 10), Rat(1, 20), 10, RInt(1000)),
      RiskConfig(Rat(-1, 20), Rat(-1, 10), Rat(1, 20), 10, RInt(1000)) }

\* the risk_management section of config.yaml
ConfigFiles ==
    { <<>>, [profit_threshold |-> Rat(3, 10), max_positions |-> 3] }

EntryPrices == {RInt(0), RInt(50), RInt(100)}
CurrentPrices ==
    {RInt(p) : p \in {0, 45, 47, 50, 52, 55, 60, 89, 90, 91, 105, 107, 119, 120, 121}}
Balances == {RInt(c) : c \in {0, 1000, 19999, 20000, 100000}}
StockPrices == {RInt(p) : p \in {0, 100, 333, 6000}}
TradePrices == {RInt(100), RInt(2500)}
PositionCounts == {0, 5, 10}
Quantities == {1, 50, 51}

InitRisk ==
    /\ risk = <<>>
    /\ risk_call = <<>>
    /\ IdleEngine /\ IdleMetrics /\ IdleSignals /\ IdlePolicy

Construct ==
    /\ risk = <<>>
    /\ \E config \in RiskConfigs \cup {None}, risk_config \in ConfigFiles :
          risk' = <<RiskManager(config, risk_config)>>
    /\ UNCHANGED <<risk_call, engineVars, metricsVars, liveVars>>

ShouldExitPosition ==
    /\ risk # <<>>
    /\ \E average_entry_price \in EntryPrices, current_price \in CurrentPrices :
          risk_call' =
            << [op |-> "should_exit_position",
                args |-> [position |-> Position("AAPL", 100, average_entry_price),
                          current_price |-> current_price],
                result |-> should_exit_position(
                              risk[1], Position("AAPL", 100, average_entry_price),
                              current_price)] >>
    /\ UNCHANGED <<risk, engineVars, metricsVars, liveVars>>

CalculatePositionSize ==
    /\ risk # <<>>
    /\ \E account_balance \in Balances, stock_price \in StockPrices,
          current_positions_count \in PositionCounts :
          risk_call' =
            << [op |-> "calculate_position_size",
                args |-> [account_balance |-> account_balance,
                          stock_price |-> stock_price,
                          current_positions_count |-> current_positions_count],
                result |-> calculate_position_size(
                              risk[1], account_balance, stock_price,
                              current_positions_count)] >>
    /\ UNCHANGED <<risk, engineVars, metricsVars, liveVars>>

ValidateTrade ==
    /\ risk # <<>>
    /\ \E quantity \in Quantities, price \in TradePrices,
          account_balance \in Balances, current_positions_count \in PositionCounts :
          risk_call' =
            << [op |-> "validate_trade",
                args |-> [ticker |-> "AAPL", quantity |-> quantity, price |-> price,
                          account_balance |-> account_balance,
                          current_positions_count |-> current_positions_count],
                result |-> validate_trade(
                              risk[1], "AAPL", quantity, price, account_balance,
                              current_positions_count)] >>
    /\ UNCHANGED <<risk, engineVars, metricsVars, liveVars>>

\* the quantity that calculate_position_size has just returned goes to
\* validate_trade with the price, balance and position count it was sized for
ValidateSizedTrade ==
    /\ risk # <<>>
    /\ risk_call # <<>>
    /\ risk_call[1].op = "calculate_position_size"
    /\ "returns" \in DOMAIN risk_call[1].result
    /\ risk_call[1].result.returns > 0
    /\ risk_call' =
          << [op |-> "validate_trade",
              args |-> [ticker |-> "AAPL", quantity |-> risk_call[1].result.returns,
                        price |-> risk_call[1].args.stock_price,
                        account_balance |-> risk_call[1].args.account_balance,
                        current_positions_count |->
                            risk_call[1].args.current_positions_count],
              sized |-> TRUE,
              result |-> validate_trade(
                            risk[1], "AAPL", risk_call[1].result.returns,
                            risk_call[1].args.stock_price,
                            risk_call[1].args.account_balance,
                            risk_call[1].args.current_positions_count)] >>
    /\ UNCHANGED <<risk, engineVars, metricsVars, liveVars>>

TradeStatuses == {"open", "closed"}

ShouldExitTrade ==
    /\ risk # <<>>
    /\ \E entry_price \in EntryPrices, current_price \in CurrentPrices,
          status \in TradeStatuses :
          risk_call' =
            << [op |-> "should_exit_trade",
                args |-> [trade |-> ExecutedTrade("AAPL", 100, entry_price, status),
                          current_price |-> current_price],
                result |-> should_exit_trade(
                              risk[1], ExecutedTrade("AAPL", 100, entry_price, status),
                              current_price)] >>
    /\ UNCHANGED <<risk, engineVars, metricsVars, liveVars>>

NextRisk ==
    \/ Construct \/ ShouldExitPosition \/ CalculatePositionSize \/ ValidateTrade
    \/ ValidateSizedTrade \/ ShouldExitTrade

SpecRisk == InitRisk /\ [][NextRisk]_vars

(***************************************************************************)
(* src/strategy/signal_generator.py and its metrics sink,                  *)
(* src/optimization/metrics_collector.py.  The generator reads the         *)
(* congressional_trades table db at the date today; the sink writes the    *)
(* signal_accuracy table.                                                  *)
(***************************************************************************)
Signal == [BUY |-> "BUY", SELL |-> "SELL", HOLD |-> "HOLD"]

TradeSignal(ticker, signal, confidence, supporting_trades, conflicting_trades, reason) ==
    [ticker |-> ticker, signal |-> signal, confidence |-> confidence,
     supporting_trades |-> supporting_trades,
     conflicting_trades |-> conflicting_trades, reason |-> reason]

\* strategy_config.get(key, default) of __init__
SignalGenerator(strategy_config) ==
    [conflict_resolution |->
        Get(strategy_config, "conflict_resolution", "dollar_weighted"),
     buy_threshold_multiplier |->
        Get(strategy_config, "buy_threshold_multiplier", Rat(3, 2))]

\* rows in descending transaction_date order, from date downwards
RECURSIVE OrderByTransactionDesc(_, _)
OrderByTransactionDesc(rows, date) ==
    IF \A i \in 1..Len(rows) : rows[i].transaction_date > date THEN <<>>
    ELSE SelectSeq(rows, LAMBDA row : row.transaction_date = date)
         \o OrderByTransactionDesc(rows, date - 1)

\* the ticker and start_date filters; "if ticker:" is false for ""
get_historical_trades(ticker, start_date) ==
    OrderByTransactionDesc(
        SelectSeq(db, LAMBDA row :
            /\ ticker # "" => row.ticker = ticker
            /\ row.transaction_date >= start_date),
        today)

get_trades_for_ticker(ticker, days_back) ==
    get_historical_trades(ticker, today - days_back)

\* sum(t.estimated_amount for t in trades): adding None raises TypeError
SumOfAmounts(trades) ==
    IF \E i \in 1..Len(trades) : trades[i].estimated_amount = None
    THEN Raise("TypeError")
    ELSE Return(RSum([i \in 1..Len(trades) |-> trades[i].estimated_amount]))

\* format(x, ",.0f"): the digits in groups of three
RECURSIVE Grouped(_)
Grouped(digits) ==
    IF Len(digits) <= 3 THEN digits
    ELSE Grouped(SubSeq(digits, 1, Len(digits) - 3)) \o ","
         \o SubSeq(digits, Len(digits) - 2, Len(digits))

FormatGrouped(x) == Grouped(FormatFixed(x, 0))

\* a variant that compares the two weights without the multiplier
WeighWithoutMultiplier(self, buys, sells, ticker, buy_weight, sell_weight) ==
    IF RLt(sell_weight, buy_weight)
    THEN TradeSignal(ticker, Signal.BUY,
                     RDiv(buy_weight, RAdd(buy_weight, sell_weight)), buys, sells, "")
    ELSE IF RLt(buy_weight, sell_weight)
    THEN TradeSignal(ticker, Signal.SELL,
                     RDiv(sell_weight, RAdd(buy_weight, sell_weight)), sells, buys, "")
    ELSE TradeSignal(ticker, Signal.HOLD, Zero, <<>>, buys \o sells, "")

\* a variant that leaves the buys as supporting trades of a HOLD
WeighKeepingSupport(self, buys, sells, ticker, buy_weight, sell_weight) ==
    IF RLt(RMul(sell_weight, self.buy_threshold_multiplier), buy_weight)
    THEN TradeSignal(ticker, Signal.BUY,
                     RDiv(buy_weight, RAdd(buy_weight, sell_weight)), buys, sells, "")
    ELSE IF RLt(RMul(buy_weight, self.buy_threshold_multiplier), sell_weight)
    THEN TradeSignal(ticker, Signal.SELL,
                     RDiv(sell_weight, RAdd(buy_weight, sell_weight)), sells, buys, "")
    ELSE TradeSignal(ticker, Signal.HOLD, Zero, buys, sells, "")

\* _analyze_dollar_weighted once both sums exist
Weigh(self, buys, sells, ticker, buy_weight, sell_weight) ==
    IF RAdd(buy_weight, sell_weight) = Zero
    THEN TradeSignal(ticker, Signal.HOLD, Zero, <<>>, <<>>,
                     "No valid trade amounts found")
    ELSE IF RLt(RMul(sell_weight, self.buy_threshold_multiplier), buy_weight)
    THEN TradeSignal(ticker, Signal.BUY,
                     RMin(RDiv(buy_weight, RAdd(buy_weight, sell_weight)), RInt(1)),
                     buys, sells,
                     "Buy trades ($" \o FormatGrouped(buy_weight)
                     \o ") outweigh sells ($" \o FormatGrouped(sell_weight) \o ")")
    ELSE IF RLt(RMul(buy_weight, self.buy_threshold_multiplier), sell_weight)
    THEN TradeSignal(ticker, Signal.SELL,
                     RMin(RDiv(sell_weight, RAdd(buy_weight, sell_weight)), RInt(1)),
                     sells, buys,
                     "Sell trades ($" \o FormatGrouped(sell_weight)
                     \o ") outweigh buys ($" \o FormatGrouped(buy_weight) \o ")")
    ELSE TradeSignal(ticker, Signal.HOLD, Zero, <<>>, buys \o sells,
                     "Conflicting signals: buys $" \o FormatGrouped(buy_weight)
                     \o ", sells $" \o FormatGrouped(sell_weight))

_analyze_dollar_weighted(self, buys, sells, ticker) ==
    IF "raises" \in DOMAIN SumOfAmounts(buys) THEN SumOfAmounts(buys)
    ELSE IF "raises" \in DOMAIN SumOfAmounts(sells) THEN SumOfAmounts(sells)
    ELSE Return(Weigh(self, buys, sells, ticker, SumOfAmounts(buys).returns,
                      SumOfAmounts(sells).returns))

\* a variant that takes a single sale among the buys for unanimity
UnanimousButOne(self, buys, sells, ticker) ==
    IF buys # <<>> /\ Len(sells) <= 1
    THEN Return(TradeSignal(ticker, Signal.BUY, RMin(Rat(Len(buys), 10), RInt(1)),
                            buys, <<>>, ""))
    ELSE IF sells # <<>> /\ buys = <<>>
    THEN Return(TradeSignal(ticker, Signal.SELL, RMin(Rat(Len(sells), 10), RInt(1)),
                            sells, <<>>, ""))
    ELSE Return(TradeSignal(ticker, Signal.HOLD, Zero, <<>>, buys \o sells, ""))

_analyze_unanimous_only(self, buys, sells, ticker) ==
    IF buys # <<>> /\ sells = <<>>
    THEN Return(TradeSignal(ticker, Signal.BUY, RMin(Rat(Len(buys), 10), RInt(1)),
                            buys, <<>>,
                            "Unanimous buy signal from " \o Decimal(Len(buys))
                            \o " trades"))
    ELSE IF sells # <<>> /\ buys = <<>>
    THEN Return(TradeSignal(ticker, Signal.SELL, RMin(Rat(Len(sells), 10), RInt(1)),
                            sells, <<>>,
                            "Unanimous sell signal from " \o Decimal(Len(sells))
                            \o " trades"))
    ELSE Return(TradeSignal(ticker, Signal.HOLD, Zero, <<>>, buys \o sells,
                            "Mixed signals: " \o Decimal(Len(buys)) \o " buys, "
                            \o Decimal(Len(sells)) \o " sells"))

\* a variant that resolves by unanimity
TrackRecordByUnanimity(self, buys, sells, ticker) ==
    _analyze_unanimous_only(self, buys, sells, ticker)

_analyze_by_track_record(self, buys, sells, ticker) ==
    _analyze_dollar_weighted(self, buys, sells, ticker)

\* the dispatch of analyze_ticker on self.conflict_resolution
Resolve(self, buys, sells, ticker) ==
    IF self.conflict_resolution = "dollar_weighted"
    THEN _analyze_dollar_weighted(self, buys, sells, ticker)
    ELSE IF self.conflict_resolution = "unanimous_only"
    THEN _analyze_unanimous_only(self, buys, sells, ticker)
    ELSE IF self.conflict_resolution = "senator_track_record"
    THEN _analyze_by_track_record(self, buys, sells, ticker)
    ELSE _analyze_dollar_weighted(self, buys, sells, ticker)

Buys(trades) ==
    SelectSeq(trades, LAMBDA t : Lower(t.transaction_type) \in {"purchase", "buy"})
Sells(trades) ==
    SelectSeq(trades, LAMBDA t : Lower(t.transaction_type) \in {"sale", "sell"})

\* the part of analyze_ticker that computes the signal
Analyze(self, ticker, trades) ==
    IF trades = <<>>
    THEN Return(TradeSignal(ticker, Signal.HOLD, Zero, <<>>, <<>>,
                            "No recent congressional trades found"))
    ELSE Resolve(self, Buys(trades), Sells(trades), ticker)

\* the columns of signal_accuracy that may be NULL hold <<>> for NULL and
\* <<value>> otherwise
\* the sink as a call meets it: env.creatable, whether MetricsCollector() can
\* be constructed; env.recording, "ok", "db_error" (add or commit raises
\* inside record_signal) or "raises" (an exception leaves record_signal)
SinkState(collector, table, now) == [collector |-> collector, table |-> table, now |-> now]

get_metrics_collector(sink, env) ==
    IF sink.collector = <<>> /\ env.creatable
    THEN [sink EXCEPT !.collector = <<"MetricsCollector">>]
    ELSE sink

SignalAccuracy(signal_timestamp, ticker, predicted_signal, predicted_confidence, conflict_resolution_method) ==
    [signal_timestamp |-> signal_timestamp, ticker |-> ticker,
     predicted_signal |-> predicted_signal,
     predicted_confidence |-> predicted_confidence,
     conflict_resolution_method |-> conflict_resolution_method,
     actual_outcome |-> <<>>, actual_pnl_pct |-> <<>>, executed_trade_id |-> <<>>]

\* a variant that stamps the record with the method that computed the signal
RecordMethodUsed(sink, env, ticker, signal, confidence, conflict_resolution_method) ==
    IF env.recording = "ok"
    THEN [sink EXCEPT !.table = Append(@, SignalAccuracy(sink.now, ticker, signal, confidence,
                            IF conflict_resolution_method = "unanimous_only"
                            THEN "unanimous_only" ELSE "dollar_weighted")),
                      !.now = @ + 1]
    ELSE sink

\* db.add and db.commit, or the rollback of the except branch
record_signal(sink, env, ticker, signal, confidence, conflict_resolution_method) ==
    IF env.recording = "ok"
    THEN [sink EXCEPT !.table = Append(@, SignalAccuracy(sink.now, ticker, signal, confidence,
                                                        conflict_resolution_method)),
                      !.now = @ + 1]
    ELSE sink

\* the rows of a ticker that have no outcome yet
Unresolved(table, ticker) ==
    {i \in 1..Len(table) : table[i].ticker = ticker /\ table[i].actual_outcome = <<>>}

\* .order_by(signal_timestamp.desc()).first() over the rows in candidates
Latest(table, candidates) ==
    CHOOSE i \in candidates :
        \A j \in candidates : table[j].signal_timestamp <= table[i].signal_timestamp

OutcomeOf(pnl_pct) ==
    IF RLt(Zero, pnl_pct) THEN "profit"
    ELSE IF RLt(pnl_pct, Zero) THEN "loss"
    ELSE "breakeven"

\* a variant that resolves every open signal of the ticker
ResolveAllOpen(sink, ticker, pnl_pct, executed_trade_id) ==
    [sink EXCEPT !.table =
        [i \in 1..Len(sink.table) |->
            IF i \in Unresolved(sink.table, ticker)
            THEN [sink.table[i] EXCEPT !.actual_outcome = <<OutcomeOf(pnl_pct)>>,
                                       !.actual_pnl_pct = <<pnl_pct>>,
                                       !.executed_trade_id = executed_trade_id]
            ELSE sink.table[i]]]

\* executed_trade_id: <<>> for None, <<id>> otherwise
record_trade_outcome(sink, ticker, pnl_pct, executed_trade_id) ==
    IF Unresolved(sink.table, ticker) = {} THEN sink
    ELSE [sink EXCEPT
            !.table[Latest(sink.table, Unresolved(sink.table, ticker))] =
                [@ EXCEPT !.actual_outcome = <<OutcomeOf(pnl_pct)>>,
                          !.actual_pnl_pct = <<pnl_pct>>,
                          !.executed_trade_id = executed_trade_id]]

\* a variant that lets a failure of the sink reach the caller
ReportUnguarded(self, sink, env, ticker, result) ==
    IF "raises" \in DOMAIN result THEN [result |-> result, sink |-> sink]
    ELSE IF get_metrics_collector(sink, env).collector # <<>>
            /\ result.returns.signal # Signal.HOLD
    THEN [result |-> IF env.recording = "ok" THEN result ELSE Raise("Exception"),
          sink |-> record_signal(get_metrics_collector(sink, env), env, ticker,
                                 result.returns.signal, result.returns.confidence,
                                 self.conflict_resolution)]
    ELSE [result |-> result, sink |-> get_metrics_collector(sink, env)]

\* the try block of analyze_ticker: nothing is reported when the signal
\* could not be computed; an exception of the sink is logged and dropped
Report(self, sink, env, ticker, result) ==
    IF "raises" \in DOMAIN result THEN [result |-> result, sink |-> sink]
    ELSE IF get_metrics_collector(sink, env).collector # <<>>
            /\ result.returns.signal # Signal.HOLD
    THEN [result |-> result,
          sink |-> record_signal(get_metrics_collector(sink, env), env, ticker,
                                 result.returns.signal, result.returns.confidence,
                                 self.conflict_resolution)]
    ELSE [result |-> result, sink |-> get_metrics_collector(sink, env)]

analyze_ticker(self, sink, env, ticker, lookback_days) ==
    IF get_trades_for_ticker(ticker, lookback_days) = <<>>
    THEN [result |-> Analyze(self, ticker, <<>>), sink |-> sink]
    ELSE Report(self, sink, env, ticker,
                Analyze(self, ticker, get_trades_for_ticker(ticker, lookback_days)))

(***************************************************************************)
(* The signal generator: one SignalGenerator over a table of disclosures,  *)
(* asked about tickers and lookbacks while the sink works, fails or cannot *)
(* be created.                                                             *)
(***************************************************************************)
\* twelve purchases of MSFT, three of them in the last week
ManyBuys ==
    [i \in 1..12 |->
        Trade(20 + i, "Pelosi", "MSFT", "Purchase", RInt(15000),
              IF i <= 3 THEN 40 - 2 * i ELSE 35 - 2 * i, 40)]

SignalTrades ==
    << Trade(1, "Pelosi", "AAPL", "Purchase", RInt(100000), 38, 40),
       Trade(2, "Tuberville", "AAPL", "Sale", RInt(10000), 36, 40),
       Trade(3, "Crenshaw", "AAPL", "Sale", RInt(60000), 20, 30),
       Trade(4, "Pelosi", "TSLA", "Sale", RInt(15000), 37, 40),
       Trade(5, "Tuberville", "TSLA", "Purchase", None, 15, 30),
       Trade(6, "Crenshaw", "GOOG", "Purchase", RInt(15000), 39, 40),
       Trade(7, "Pelosi", "GOOG", "Sale", RInt(10000), 35, 40),
       Trade(8, "Pelosi", "GOOG", "Exchange", RInt(500000), 34, 40),
       Trade(9, "Tuberville", "NVDA", "Exchange", RInt(15000), 25, 30) >>
    \o ManyBuys

SignalTickers == {"AAPL", "TSLA", "GOOG", "NVDA", "MSFT"}
Lookbacks == {7, 30}

\* the strategy section of the configuration file; "majority" is not a
\* method the generator knows
StrategyConfigs ==
    { <<>>,
      [conflict_resolution |-> "dollar_weighted", buy_threshold_multiplier |-> RInt(1)],
      [conflict_resolution |-> "dollar_weighted", buy_threshold_multiplier |-> Rat(1, 2)],
      [conflict_resolution |-> "unanimous_only"],
      [conflict_resolution |-> "senator_track_record"],
      [conflict_resolution |-> "majority"] }

SinkEnvs ==
    { [creatable |-> FALSE, recording |-> "ok"],
      [creatable |-> TRUE, recording |-> "ok"],
      [creatable |-> TRUE, recording |-> "db_error"],
      [creatable |-> TRUE, recording |-> "raises"] }

MaxSignals == 2

InitSignal ==
    /\ db = SignalTrades
    /\ today = 40
    /\ holding_periods = <<>> /\ oracle = <<>>
    /\ price_cache = <<>> /\ fetched = <<>> /\ last_run = <<>>
    /\ generator \in {<<SignalGenerator(strategy_config)>> :
                          strategy_config \in StrategyConfigs}
    /\ _metrics_collector = <<>>
    /\ signal_accuracy = <<>>
    /\ utcnow = 0
    /\ signal_call = <<>>
    /\ collector_call = <<>>
    /\ IdleMetrics /\ IdleRisk /\ IdlePolicy

AnalyzeTicker ==
    /\ Len(signal_accuracy) < MaxSignals
    /\ \E ticker \in SignalTickers, lookback_days \in Lookbacks, env \in SinkEnvs :
          \E out \in {analyze_ticker(generator[1],
                                     SinkState(_metrics_collector, signal_accuracy, utcnow),
                                     env, ticker, lookback_days)} :
              /\ _metrics_collector' = out.sink.collector
              /\ signal_accuracy' = out.sink.table
              /\ utcnow' = out.sink.now
              /\ signal_call' =
                    << [ticker |-> ticker, lookback_days |-> lookback_days,
                        env |-> env,
                        trades |-> get_trades_for_ticker(ticker, lookback_days),
                        result |-> out.result,
                        collector |-> _metrics_collector,
                        table |-> signal_accuracy] >>
    /\ UNCHANGED <<generator, collector_call, engineVars, metricsVars, riskVars, policyVars>>

NextSignal == AnalyzeTicker

SpecSignal == InitSignal /\ [][NextSignal]_vars

(***************************************************************************)
(* The metrics collector on its own: signals are recorded and outcomes     *)
(* reported, in any order.  Every record_signal reads a later clock.       *)
(***************************************************************************)
MaxRows == 3

SignalInputs ==
    { [ticker |-> "AAPL", signal |-> "BUY", confidence |-> Rat(17, 20),
       conflict_resolution_method |-> "dollar_weighted"],
      [ticker |-> "TSLA", signal |-> "SELL", confidence |-> Rat(3, 4),
       conflict_resolution_method |-> "unanimous_only"] }

OutcomeInputs ==
    { [pnl_pct |-> Rat(3, 25), executed_trade_id |-> <<1>>],
      [pnl_pct |-> Rat(-1, 10), executed_trade_id |-> <<>>],
      [pnl_pct |-> Zero, executed_trade_id |-> <<>>] }

InitCollector ==
    /\ signal_accuracy = <<>>
    /\ utcnow = 0
    /\ collector_call = <<>>
    /\ generator = <<>> /\ _metrics_collector = <<>> /\ signal_call = <<>>
    /\ IdleEngine /\ IdleMetrics /\ IdleRisk /\ IdlePolicy

RecordSignal ==
    /\ Len(signal_accuracy) < MaxRows
    /\ \E input \in SignalInputs, recording \in {"ok", "db_error"} :
          \E out \in {record_signal(SinkState(<<>>, signal_accuracy, utcnow),
                                    [creatable |-> TRUE, recording |-> recording],
                                    input.ticker, input.signal, input.confidence,
                                    input.conflict_resolution_method)} :
              /\ signal_accuracy' = out.table
              /\ utcnow' = out.now
              /\ collector_call' = << [op |-> "record_signal", args |-> input,
                                       table |-> signal_accuracy] >>
    /\ UNCHANGED <<generator, _metrics_collector, signal_call, engineVars,
                   metricsVars, riskVars, policyVars>>

RecordTradeOutcome ==
    /\ \E ticker \in {"AAPL", "TSLA"}, input \in OutcomeInputs :
          \E out \in {record_trade_outcome(SinkState(<<>>, signal_accuracy, utcnow),
                                           ticker, input.pnl_pct,
                                           input.executed_trade_id)} :
              /\ signal_accuracy' = out.table
              /\ collector_call' = << [op |-> "record_trade_outcome",
                                       args |-> [ticker |-> ticker,
                                                 pnl_pct |-> input.pnl_pct,
                                                 executed_trade_id |->
                                                     input.executed_trade_id],
                                       table |-> signal_accuracy] >>
    /\ UNCHANGED <<generator, _metrics_collector, utcnow, signal_call, engineVars,
                   metricsVars, riskVars, policyVars>>

NextCollector == RecordSignal \/ RecordTradeOutcome

SpecCollector == InitCollector /\ [][NextCollector]_vars

(***************************************************************************)
(* The strategies: one strategy object is constructed and then asked to    *)
(* filter lists of trades and to size trades; a Top-Performers strategy is *)
(* also given rankings.                                                    *)
(***************************************************************************)
PolicyTrades ==
    << Trade(1, "Pelosi", "AAPL", "Purchase", RInt(15000), 0, 2),
       Trade(2, "Tuberville", "GOOGL", "Purchase", RInt(100000), 1, 3),
       Trade(3, "Crenshaw", "MSFT", "Sale", RInt(600000), 1, 3),
       Trade(4, "Crenshaw", "TSLA", "Purchase", None, 2, 4),
       Trade(5, "Pelosi", "BRK.BX", "Purchase", RInt(500000), 2, 5),
       Trade(6, "Tuberville", "", "Purchase", RInt(250000), 3, 5),
       Trade(7, "Pelosi", "NVDA", "Exchange", RInt(50000), 3, 6),
       Trade(8, "Crenshaw", "AMZN", "Purchase", RInt(50000), 4, 6),
       Trade(9, "Tuberville", "META", "Purchase", Zero, 4, 7) >>

TradeLists == {<<>>, TradesA, TradesB, PolicyTrades}

\* the strategies as their constructors leave them
NewStrategies ==
    { FollowAllStrategy(None, TRUE),
      FollowAllStrategy(RInt(50000), TRUE),
      FollowAllStrategy(RInt(50000), FALSE),
      TopPerformersStrategy(1, {}),
      TopPerformersStrategy(2, {}),
      TopPerformersStrategy(10, {}),
      LargeTradesStrategy(RInt(50000)),
      LargeTradesStrategy(RInt(100000)) }

\* rankings: none, one with equal returns, one in ascending order
Performances ==
    { <<>>,
      << <<"Pelosi", RInt(5)>>, <<"Tuberville", RInt(5)>>, <<"Crenshaw", RInt(-1)>> >>,
      << <<"Pelosi", RInt(1)>>, <<"Crenshaw", RInt(3)>> >> }

\* whether the strategy has been given a ranking
Updated == policy_call # <<>> /\ policy_call[1].updated

InitPolicy ==
    /\ policy \in {<<strategy>> : strategy \in NewStrategies}
    /\ policy_call = <<>>
    /\ IdleEngine /\ IdleMetrics /\ IdleRisk /\ IdleSignals

FilterTrades ==
    /\ \E trades \in TradeLists :
          policy_call' = << [op |-> "filter_trades", args |-> [trades |-> trades],
                             result |-> filter_trades(policy[1], trades),
                             updated |-> Updated] >>
    /\ UNCHANGED <<policy, engineVars, metricsVars, riskVars, signalVars>>

GetPositionSize ==
    /\ \E trades \in TradeLists \ {<<>>} : \E i \in 1..Len(trades) :
          policy_call' = << [op |-> "get_position_size", args |-> [trade |-> trades[i]],
                             result |-> get_position_size(policy[1], trades[i]),
                             updated |-> Updated] >>
    /\ UNCHANGED <<policy, engineVars, metricsVars, riskVars, signalVars>>

UpdateTopPoliticians ==
    /\ policy[1].kind = "TopPerformers"
    /\ \E politician_performance \in Performances :
          /\ policy' = <<update_top_politicians(policy[1], politician_performance)>>
          /\ policy_call' = << [op |-> "update_top_politicians",
                                args |-> [politician_performance |-> politician_performance],
                                before |-> policy[1].top_politicians,
                                result |-> None, updated |-> TRUE] >>
    /\ UNCHANGED <<engineVars, metricsVars, riskVars, signalVars>>

NextPolicy == FilterTrades \/ GetPositionSize \/ UpdateTopPoliticians

SpecPolicy == InitPolicy /\ [][NextPolicy]_vars

\* the outcomes of the argument that carry a return, counted from the argument
NumReturns(results) ==
    Cardinality({i \in 1..Len(results) : results[i].return_pct # None})
NumWins(results) ==
    Cardinality({i \in 1..Len(results) :
        results[i].return_pct # None /\ results[i].return_pct.n > 0})
NumLosses(results) ==
    Cardinality({i \in 1..Len(results) :
        results[i].return_pct # None /\ results[i].return_pct.n < 0})

\* C3 as stated: for every list of return percentages, win_rate is in [0,1]
\* and win_rate * total_trades equals the reported win count exactly.
C3_WinRateTimesTotalIsWinCount ==
    (m_report # <<>> /\ "total_wins" \in DOMAIN m_report[1]) =>
        /\ F64InUnit(m_report[1].win_rate)
        /\ F64MulInt(m_report[1].win_rate, m_report[1].total_trades)
             = F64OfInt(m_report[1].total_wins)

\* C3 as amended: win_rate is in [0,1]; the win count, where one is reported,
\* is the number of returns strictly greater than zero; and
\* win_rate * total_trades is that number or one of the two doubles next to it.
C3_WinRateWithinOneUlp ==
    m_report # <<>> =>
        LET rep == m_report[1]
            w == F64OfInt(NumWins(m_results))
        IN  /\ F64InUnit(rep.win_rate)
            /\ "total_wins" \in DOMAIN rep => rep.total_wins = NumWins(m_results)
            /\ F64MulInt(rep.win_rate, rep.total_trades)
                 \in {w, F64Pred(w), F64Succ(w)}

\* a list of 22 outcomes with 15 wins has been reported on
C3_Witness ==
    /\ m_report # <<>>
    /\ NumReturns(m_results) = 22
    /\ NumWins(m_results) = 15
    /\ m_report[1].total_wins = 15

\* the sum of the returns of the argument that are on the given side of zero
SumOnSide(results, sign) ==
    LET side == SelectSeq(results, LAMBDA res :
                    res.return_pct # None /\ res.return_pct.n * sign > 0)
    IN  RSum([i \in 1..Len(side) |-> side[i].return_pct])

\* C4 as stated: profit_factor is (sum of positive returns) / |sum of negative
\* returns| with at least one losing outcome, the +infinity sentinel with no
\* losing and at least one winning outcome, and 0 with zero outcomes.
C4_ProfitFactor ==
    m_report # <<>> =>
        LET rep == m_report[1] IN
        /\ NumLosses(m_results) > 0 =>
             /\ "profit_factor" \in DOMAIN rep
             /\ rep.profit_factor = RDiv(SumOnSide(m_results, 1),
                                         RAbs(SumOnSide(m_results, -1)))
        /\ (NumLosses(m_results) = 0 /\ NumWins(m_results) > 0) =>
             /\ "profit_factor" \in DOMAIN rep
             /\ rep.profit_factor = Inf
        /\ NumReturns(m_results) = 0 =>
             /\ "profit_factor" \in DOMAIN rep
             /\ rep.profit_factor = Zero

\* the part of C4 the code does meet: every list with at least one outcome
C4_ProfitFactorOfNonEmpty ==
    (m_report # <<>> /\ NumReturns(m_results) > 0) => C4_ProfitFactor

(***************************************************************************)
(* What a run of the engine did, read from last_run.                       *)
(***************************************************************************)
\* the outcomes of the run simulated from the trade at the holding period
OutcomesOf(run, trade, holding_period) ==
    {i \in 1..Len(run.all_results) :
        /\ run.all_results[i].trade_id = trade.id
        /\ run.all_results[i].holding_period = holding_period}

\* the (trade, holding period) pair could be evaluated on the day of the run
Matured(run, trade, holding_period) ==
    trade.disclosure_date + holding_period <= run.today

\* the price source has a price for both dates of the pair
BothPricesAvailable(trade, holding_period) ==
    /\ FetchPrice(trade.ticker, trade.disclosure_date) # None
    /\ FetchPrice(trade.ticker, trade.disclosure_date + holding_period) # None

\* C1: every outcome of a run comes from a trade of the run and one of the
\* holding periods, enters on the trade's disclosure date, exits that many
\* days later and not after the day of the run; a pair whose exit is after
\* that day has no outcome.
C1_OutcomeDates ==
    last_run # <<>> =>
        LET run == last_run[1] IN
        /\ \A i \in 1..Len(run.all_results) :
              \E j \in 1..Len(run.filtered_trades) :
                 /\ run.filtered_trades[j].id = run.all_results[i].trade_id
                 /\ run.all_results[i].entry_date
                      = run.filtered_trades[j].disclosure_date
                 /\ run.all_results[i].holding_period \in SeqRange(holding_periods)
                 /\ run.all_results[i].exit_date
                      = run.all_results[i].entry_date
                          + run.all_results[i].holding_period
                 /\ run.all_results[i].exit_date <= run.today
        /\ \A j \in 1..Len(run.filtered_trades), H \in SeqRange(holding_periods) :
              ~Matured(run, run.filtered_trades[j], H)
                  => OutcomesOf(run, run.filtered_trades[j], H) = {}

\* a run has given one trade an outcome at one holding period and discarded
\* it at another whose exit is still to come
C1_Witness ==
    /\ last_run # <<>>
    /\ \E j \in 1..Len(last_run[1].filtered_trades) :
          \E H1, H2 \in SeqRange(holding_periods) :
             /\ OutcomesOf(last_run[1], last_run[1].filtered_trades[j], H1) # {}
             /\ ~Matured(last_run[1], last_run[1].filtered_trades[j], H2)

\* the fields of the MetricsReport data model
MetricsFields ==
    {"total_trades", "total_return", "avg_return", "win_rate", "sharpe_ratio",
     "max_drawdown", "best_trade", "worst_trade", "profit_factor", "avg_win",
     "avg_loss", "total_wins", "total_losses"}

IsZeroField(report, field) ==
    /\ field \in DOMAIN report
    /\ report[field] = CASE field \in {"total_trades", "total_wins", "total_losses"} -> 0
                         [] field = "win_rate" -> F64Zero
                         [] OTHER -> Zero

\* C2 as stated: a run with no successful outcome returns an overall report
\* and a report for every holding period that have every field of the
\* MetricsReport data model, each zero.
C2_ZeroOutcomeReportsAreComplete ==
    (last_run # <<>> /\ last_run[1].ret.successful_trades = 0) =>
        /\ \A field \in MetricsFields :
              IsZeroField(last_run[1].ret.overall_metrics, field)
        /\ \A period \in DOMAIN last_run[1].ret.metrics_by_holding_period :
              \A field \in MetricsFields :
                 IsZeroField(last_run[1].ret.metrics_by_holding_period[period], field)

SameInputs(run, other) ==
    /\ run.strategy = other.strategy
    /\ run.start_date = other.start_date
    /\ run.end_date = other.end_date
    /\ run.max_trades = other.max_trades

SameReports(ret, other) ==
    /\ ret.overall_metrics = other.overall_metrics
    /\ ret.metrics_by_holding_period = other.metrics_by_holding_period

\* C5 as stated: a run with the strategy, date range and max_trades of the
\* run before it, on the same engine, database, holding periods and price
\* source, reports the same overall and per-period metrics.
C5_SameInputsSameReports ==
    [][(last_run # <<>> /\ last_run' # <<>>
        /\ SameInputs(last_run[1], last_run'[1]))
          => SameReports(last_run[1].ret, last_run'[1].ret)]_vars

\* C5 as amended: whatever the price cache held when it started, a run
\* reports the overall and per-period metrics that an engine with an empty
\* cache reports for the same strategy, date range and max_trades on the
\* same day; so any two such runs of one day report the same.
C5_SameAsFreshEngineOnSameDay ==
    last_run # <<>> =>
        SameReports(last_run[1].ret,
                    run_backtest(EngineState(<<>>, <<>>, 0), last_run[1].strategy,
                                 last_run[1].start_date, last_run[1].end_date,
                                 last_run[1].max_trades, last_run[1].today).ret)

\* a run that produced outcomes took every price it used from the cache an
\* earlier run had filled
C5_Witness ==
    /\ last_run # <<>>
    /\ last_run[1].from_cache
    /\ last_run[1].ret.successful_trades > 0
    /\ last_run[1].ret.overall_metrics.total_return # Zero

\* C6: in every run, a pair that could be evaluated has exactly one outcome
\* when the price source has both of its prices and none when a lookup it
\* needs is unavailable or raises, whatever happened to the other pairs.
C6_OnlyAffectedPairsSkipped ==
    last_run # <<>> =>
        \A j \in 1..Len(last_run[1].filtered_trades), H \in SeqRange(holding_periods) :
            Matured(last_run[1], last_run[1].filtered_trades[j], H) =>
                Cardinality(OutcomesOf(last_run[1], last_run[1].filtered_trades[j], H))
                    = IF BothPricesAvailable(last_run[1].filtered_trades[j], H)
                      THEN 1 ELSE 0

\* a run in which a lookup raised: the pair that needed it was skipped, a
\* pair of the same trade got its outcome, and so did a trade after it
C6_Witness ==
    /\ last_run # <<>>
    /\ \E j \in 1..Len(last_run[1].filtered_trades) :
          \E H1, H2 \in SeqRange(holding_periods) :
             /\ Matured(last_run[1], last_run[1].filtered_trades[j], H1)
             /\ <<last_run[1].filtered_trades[j].ticker,
                  last_run[1].filtered_trades[j].disclosure_date + H1>>
                    \in oracle.raises
             /\ OutcomesOf(last_run[1], last_run[1].filtered_trades[j], H1) = {}
             /\ OutcomesOf(last_run[1], last_run[1].filtered_trades[j], H2) # {}
             /\ \E k \in (j + 1)..Len(last_run[1].filtered_trades) :
                   OutcomesOf(last_run[1], last_run[1].filtered_trades[k], H1) # {}

(***************************************************************************)
(* What a call of the risk manager returned, read from risk_call.          *)
(***************************************************************************)
\* word in text, letter for letter
Contains(text, word) ==
    \E i \in 1..(Len(text) - Len(word) + 1) : SubSeq(text, i, i + Len(word) - 1) = word

Called(op) == risk_call # <<>> /\ risk_call[1].op = op

\* (current_price - average_entry_price) / average_entry_price of the call
ProfitPctOf(call) ==
    RDiv(RSub(call.args.current_price, call.args.position.average_entry_price),
         call.args.position.average_entry_price)

\* the exit evaluation of a position with entry price > 0 returns: an exit
\* with a reason containing "profit" iff profit_pct >= profit_threshold;
\* otherwise an exit with a reason containing stop_loss_text iff
\* profit_pct <= stop_loss; otherwise no exit and no reason
ExitEvaluation(stop_loss_text) ==
    (Called("should_exit_position")
     /\ risk_call[1].args.position.average_entry_price.n > 0) =>
        /\ "returns" \in DOMAIN risk_call[1].result
        /\ IF RLe(risk[1].config.profit_threshold, ProfitPctOf(risk_call[1]))
           THEN /\ risk_call[1].result.returns[1]
                /\ risk_call[1].result.returns[2] # <<>>
                /\ Contains(risk_call[1].result.returns[2][1], "profit")
                /\ ~Contains(risk_call[1].result.returns[2][1], stop_loss_text)
           ELSE IF RLe(ProfitPctOf(risk_call[1]), risk[1].config.stop_loss)
           THEN /\ risk_call[1].result.returns[1]
                /\ risk_call[1].result.returns[2] # <<>>
                /\ Contains(risk_call[1].result.returns[2][1], stop_loss_text)
                /\ ~Contains(risk_call[1].result.returns[2][1], "profit")
           ELSE risk_call[1].result.returns = << FALSE, <<>> >>

\* C7 as stated: exit with a reason containing "profit" iff profit_pct is at
\* least the profit target, tested first; otherwise exit with a reason
\* containing "stop loss" iff profit_pct is at most the stop loss; otherwise
\* no exit and no reason.
C7_ExitEvaluation == ExitEvaluation("stop loss")

\* C7 as amended: the same decisions in the same order; the reason of a stop
\* loss exit begins "Stop loss triggered at", with a capital S.
C7_ExitEvaluationCapitalised ==
    /\ ExitEvaluation("Stop loss")
    /\ (Called("should_exit_position")
        /\ "returns" \in DOMAIN risk_call[1].result
        /\ risk_call[1].result.returns[2] # <<>>
        /\ ~Contains(risk_call[1].result.returns[2][1], "profit"))
          => SubSeq(risk_call[1].result.returns[2][1], 1, 22)
               = "Stop loss triggered at"

\* entry 100, target 0.20, stop -0.10: the position was closed at 90
C7_Witness ==
    /\ Called("should_exit_position")
    /\ risk[1].config.profit_threshold = Rat(1, 5)
    /\ risk[1].config.stop_loss = Rat(-1, 10)
    /\ risk_call[1].args.position.average_entry_price = RInt(100)
    /\ risk_call[1].args.current_price = RInt(90)
    /\ risk_call[1].result = Return(<< TRUE, <<"Stop loss triggered at -10.00%">> >>)

\* profit_target_pct > 0 > stop_loss_pct
ValidThresholds(config) ==
    RLt(Zero, config.profit_threshold) /\ RLt(config.stop_loss, Zero)

\* C8 as stated: a RiskConfig that violates profit_target_pct > 0 >
\* stop_loss_pct is refused at construction, so that no risk manager holds
\* one and none evaluates an exit with one.
C8_InvalidConfigIsRefused ==
    /\ risk # <<>> => ValidThresholds(risk[1].config)
    /\ Called("should_exit_position") => ValidThresholds(risk[1].config)

\* C9: position sizing returns 0 when the open positions are at the maximum;
\* otherwise 0 when capital * fraction is below the minimum position value;
\* otherwise floor(capital * fraction / price), or 0 when that is below 1.
C9_PositionSizing ==
    (Called("calculate_position_size") /\ risk_call[1].args.stock_price.n > 0) =>
        risk_call[1].result =
            Return(IF risk_call[1].args.current_positions_count
                        >= risk[1].config.max_positions
                   THEN 0
                   ELSE IF RLt(RMul(risk_call[1].args.account_balance,
                                    risk[1].config.max_position_size),
                               risk[1].config.min_position_value)
                   THEN 0
                   ELSE IF RFloor(RDiv(RMul(risk_call[1].args.account_balance,
                                            risk[1].config.max_position_size),
                                       risk_call[1].args.stock_price)) < 1
                   THEN 0
                   ELSE RFloor(RDiv(RMul(risk_call[1].args.account_balance,
                                         risk[1].config.max_position_size),
                                    risk_call[1].args.stock_price)))

\* capital 100000, price 100, fraction 0.05, minimum 1000: 50 shares
C9_Witness ==
    /\ Called("calculate_position_size")
    /\ risk[1].config.max_position_size = Rat(1, 20)
    /\ risk[1].config.min_position_value = RInt(1000)
    /\ risk_call[1].args.account_balance = RInt(100000)
    /\ risk_call[1].args.stock_price = RInt(100)
    /\ risk_call[1].args.current_positions_count < risk[1].config.max_positions
    /\ risk_call[1].result = Return(50)

\* the four checks of trade validation, by the words their reasons carry
CheckNames == {"Max positions", "Insufficient funds", "below minimum", "exceeds limit"}

\* the call was refused with a reason that names the check and no other
RefusedBy(call, name) ==
    /\ call.result.returns[1] = FALSE
    /\ call.result.returns[2] # <<>>
    /\ \A other \in CheckNames :
          Contains(call.result.returns[2][1], other) <=> other = name

CostOf(call) == RMul(RInt(call.args.quantity), call.args.price)

\* C10: trade validation returns (valid, no reason) iff the four checks
\* pass, and otherwise (invalid, reason) with the reason of the first check
\* that fails, in the order max positions, insufficient funds, below
\* minimum, exceeds limit.
C10_ValidateTrade ==
    Called("validate_trade") =>
        /\ "returns" \in DOMAIN risk_call[1].result
        /\ IF risk_call[1].args.current_positions_count >= risk[1].config.max_positions
           THEN RefusedBy(risk_call[1], "Max positions")
           ELSE IF RLt(risk_call[1].args.account_balance, CostOf(risk_call[1]))
           THEN RefusedBy(risk_call[1], "Insufficient funds")
           ELSE IF RLt(CostOf(risk_call[1]), risk[1].config.min_position_value)
           THEN RefusedBy(risk_call[1], "below minimum")
           ELSE IF RLt(RMul(risk_call[1].args.account_balance,
                            risk[1].config.max_position_size),
                       CostOf(risk_call[1]))
           THEN RefusedBy(risk_call[1], "exceeds limit")
           ELSE risk_call[1].result.returns = << TRUE, <<>> >>

\* an order that costs more than the balance, and so more than the limit
\* too, was refused for insufficient funds
C10_Witness ==
    /\ Called("validate_trade")
    /\ risk_call[1].args.current_positions_count < risk[1].config.max_positions
    /\ RLt(risk_call[1].args.account_balance, CostOf(risk_call[1]))
    /\ RLt(RMul(risk_call[1].args.account_balance, risk[1].config.max_position_size),
           CostOf(risk_call[1]))
    /\ RefusedBy(risk_call[1], "Insufficient funds")

(***************************************************************************)
(* What a call of the signal generator did, read from signal_call.         *)
(***************************************************************************)
Analyzed == signal_call # <<>>
Returned == Analyzed /\ "returns" \in DOMAIN signal_call[1].result

AmountsKnown(trades) == \A i \in 1..Len(trades) : trades[i].estimated_amount # None

\* the sum of estimated_amount over trades whose amounts are known
Weight(trades) == RSum([i \in 1..Len(trades) |-> trades[i].estimated_amount])

\* the dollar-weighted rule for buy weight B, sell weight S and multiplier m
DollarWeightedRule(signal, B, S, m) ==
    IF RLt(RMul(S, m), B)
    THEN signal.signal = "BUY" /\ signal.confidence = RDiv(B, RAdd(B, S))
    ELSE IF RLt(RMul(B, m), S)
    THEN signal.signal = "SELL" /\ signal.confidence = RDiv(S, RAdd(B, S))
    ELSE signal.signal = "HOLD" /\ signal.confidence = Zero

\* C11: dollar-weighted fusion with buy weight B, sell weight S and
\* multiplier m returns BUY with confidence B/(B+S) iff B > S*m, otherwise
\* SELL with confidence S/(B+S) iff S > B*m, otherwise HOLD with
\* confidence 0, also when one side is not zero.
C11_DollarWeighted ==
    /\ Analyzed
    /\ generator[1].conflict_resolution = "dollar_weighted"
    /\ AmountsKnown(signal_call[1].trades)
    => /\ Returned
       /\ DollarWeightedRule(signal_call[1].result.returns,
                             Weight(Buys(signal_call[1].trades)),
                             Weight(Sells(signal_call[1].trades)),
                             generator[1].buy_threshold_multiplier)

\* buys of 100000 against sells of 10000 at the multiplier 1.5: BUY with
\* confidence 100000/110000
C11_Witness ==
    /\ Returned
    /\ generator[1].conflict_resolution = "dollar_weighted"
    /\ generator[1].buy_threshold_multiplier = Rat(3, 2)
    /\ AmountsKnown(signal_call[1].trades)
    /\ Weight(Buys(signal_call[1].trades)) = RInt(100000)
    /\ Weight(Sells(signal_call[1].trades)) = RInt(10000)
    /\ signal_call[1].result.returns.signal = "BUY"
    /\ signal_call[1].result.returns.confidence = Rat(100000, 110000)

\* the unanimous-only rule for a window with the given numbers of buys and sells
UnanimousRule(signal, buys, sells) ==
    IF buys >= 1 /\ sells = 0
    THEN signal.signal = "BUY" /\ signal.confidence = RMin(Rat(buys, 10), RInt(1))
    ELSE IF sells >= 1 /\ buys = 0
    THEN signal.signal = "SELL" /\ signal.confidence = RMin(Rat(sells, 10), RInt(1))
    ELSE signal.signal = "HOLD" /\ signal.confidence = Zero

\* C12: unanimous-only fusion returns BUY iff there is a buy and no sell,
\* with confidence min(buys / 10, 1), SELL iff there is a sell and no buy,
\* with confidence min(sells / 10, 1), and HOLD with confidence 0 in every
\* other case: a mix, and a window with neither buys nor sells.
C12_UnanimousOnly ==
    /\ Analyzed
    /\ generator[1].conflict_resolution = "unanimous_only"
    => /\ Returned
       /\ UnanimousRule(signal_call[1].result.returns,
                        Len(Buys(signal_call[1].trades)),
                        Len(Sells(signal_call[1].trades)))

\* twelve buys and no sell: BUY with the confidence capped at 1
C12_Witness ==
    /\ Returned
    /\ generator[1].conflict_resolution = "unanimous_only"
    /\ Len(Buys(signal_call[1].trades)) = 12
    /\ Len(Sells(signal_call[1].trades)) = 0
    /\ signal_call[1].result.returns.signal = "BUY"
    /\ signal_call[1].result.returns.confidence = RInt(1)

\* the same outcome: the same exception, or signals with the same direction,
\* confidence, supporting trades and conflicting trades
SameSignal(a, b) ==
    IF "raises" \in DOMAIN a THEN a = b
    ELSE /\ "returns" \in DOMAIN b
         /\ a.returns.signal = b.returns.signal
         /\ a.returns.confidence = b.returns.confidence
         /\ a.returns.supporting_trades = b.returns.supporting_trades
         /\ a.returns.conflicting_trades = b.returns.conflicting_trades

\* C13: for every set of buys and sells the track-record method returns the
\* same signal (direction, confidence, supporting and conflicting trades) as
\* the dollar-weighted method, and so does a generator whose configured
\* method name is not one of the three names it knows.
C13_FallsBackToDollarWeighted ==
    /\ Analyzed
    /\ generator[1].conflict_resolution \notin {"dollar_weighted", "unanimous_only"}
    => SameSignal(signal_call[1].result,
                  Analyze([generator[1] EXCEPT !.conflict_resolution = "dollar_weighted"],
                          signal_call[1].ticker, signal_call[1].trades))

\* the track-record method on a window where the two methods that exist
\* differ: a buy of 100000 against a sell of 10000 gives BUY
C13_Witness ==
    /\ Returned
    /\ generator[1].conflict_resolution = "senator_track_record"
    /\ Buys(signal_call[1].trades) # <<>>
    /\ Sells(signal_call[1].trades) # <<>>
    /\ signal_call[1].result.returns.signal = "BUY"
    /\ signal_call[1].result.returns.supporting_trades = Buys(signal_call[1].trades)
    /\ signal_call[1].result.returns.conflicting_trades = Sells(signal_call[1].trades)

\* the rows the call added to the signal_accuracy table
Reported(call) == SubSeq(signal_accuracy, Len(call.table) + 1, Len(signal_accuracy))

\* the call left the rows that were in the table as they were
KeptRows(call) ==
    /\ Len(signal_accuracy) >= Len(call.table)
    /\ SubSeq(signal_accuracy, 1, Len(call.table)) = call.table

\* the call reported its signal once, tagged with method
ReportedOnceAs(call, method) ==
    /\ KeptRows(call)
    /\ Len(Reported(call)) = 1
    /\ Reported(call)[1].ticker = call.ticker
    /\ Reported(call)[1].predicted_signal = call.result.returns.signal
    /\ Reported(call)[1].predicted_confidence = call.result.returns.confidence
    /\ Reported(call)[1].conflict_resolution_method = method

ReportedNothing(call) == signal_accuracy = call.table

\* the method that computed the signals of a generator
MethodUsed(self) ==
    IF self.conflict_resolution = "unanimous_only" THEN "unanimous_only"
    ELSE "dollar_weighted"

\* the sink exists after the call and recorded what it was given
SinkWorked(call) ==
    /\ call.collector # <<>> \/ call.env.creatable
    /\ call.env.recording = "ok"

C15_SinkDoesNotChangeTheSignal ==
    [][/\ Analyzed /\ Analyzed'
       /\ signal_call'[1].ticker = signal_call[1].ticker
       /\ signal_call'[1].lookback_days = signal_call[1].lookback_days
       => /\ signal_call'[1].result = signal_call[1].result
          /\ AmountsKnown(signal_call'[1].trades) => Returned']_vars

\* a SELL was returned by a call whose sink raised while recording it
C15_Witness ==
    /\ Returned
    /\ signal_call[1].result.returns.signal = "SELL"
    /\ signal_call[1].collector # <<>>
    /\ signal_call[1].env.recording = "raises"
    /\ ReportedNothing(signal_call[1])

\* C19: every signal returned by analyze, under every resolution method and
\* every disclosure set, has a confidence in [0, 1]; the confidence is 0
\* exactly when the direction is HOLD; a HOLD has no supporting trades; a BUY
\* has all buys as supporting and all sells as conflicting trades, and a
\* SELL all sells as supporting and all buys as conflicting trades.
C19_SignalShape ==
    Returned =>
        /\ signal_call[1].result.returns.signal \in {"BUY", "SELL", "HOLD"}
        /\ RLe(Zero, signal_call[1].result.returns.confidence)
        /\ RLe(signal_call[1].result.returns.confidence, RInt(1))
        /\ signal_call[1].result.returns.confidence = Zero
              <=> signal_call[1].result.returns.signal = "HOLD"
        /\ signal_call[1].result.returns.signal = "HOLD"
              => signal_call[1].result.returns.supporting_trades = <<>>
        /\ signal_call[1].result.returns.signal = "BUY"
              => /\ signal_call[1].result.returns.supporting_trades
                      = Buys(signal_call[1].trades)
                 /\ signal_call[1].result.returns.conflicting_trades
                      = Sells(signal_call[1].trades)
        /\ signal_call[1].result.returns.signal = "SELL"
              => /\ signal_call[1].result.returns.supporting_trades
                      = Sells(signal_call[1].trades)
                 /\ signal_call[1].result.returns.conflicting_trades
                      = Buys(signal_call[1].trades)

\* a HOLD of the dollar-weighted method over a window that has buys and sells
C19_Witness ==
    /\ Returned
    /\ generator[1].conflict_resolution = "dollar_weighted"
    /\ Buys(signal_call[1].trades) # <<>>
    /\ Sells(signal_call[1].trades) # <<>>
    /\ signal_call[1].result.returns.signal = "HOLD"
    /\ signal_call[1].result.returns.confidence = Zero
    /\ signal_call[1].result.returns.supporting_trades = <<>>

(***************************************************************************)
(* What a call on the strategy did, read from policy_call.                 *)
(***************************************************************************)
PolicyCalled(op, kind) ==
    policy_call # <<>> /\ policy_call[1].op = op /\ policy[1].kind = kind

Purchases(trades) == SelectSeq(trades, IsPurchase)

PurchasesOf(trades, politicians) ==
    SelectSeq(trades, LAMBDA trade :
        IsPurchase(trade) /\ trade.politician_name \in politicians)

\* C16: Top-Performers is two-phase: before any update_top_performers call,
\* filter returns exactly the purchases of its input; after any update
\* call, every later filter call returns exactly the input purchases whose
\* politician is in the retained set, for every argument of the update.
C16_TwoPhase ==
    PolicyCalled("filter_trades", "TopPerformers") =>
        policy_call[1].result =
            IF policy_call[1].updated
            THEN PurchasesOf(policy_call[1].args.trades, policy[1].top_politicians)
            ELSE Purchases(policy_call[1].args.trades)

IsSale(trade) == Lower(trade.transaction_type) \in {"sale", "sell"}
ValidTicker(trade) == trade.ticker # "" /\ Len(trade.ticker) <= 5
AmountKnown(trade) == trade.estimated_amount # None

C18_LargeTrades ==
    /\ PolicyCalled("filter_trades", "LargeTrades") =>
          policy_call[1].result =
              SelectSeq(policy_call[1].args.trades, LAMBDA trade :
                  /\ IsPurchase(trade)
                  /\ AmountKnown(trade)
                  /\ RLe(policy[1].min_trade_value, trade.estimated_amount))
    /\ /\ PolicyCalled("get_position_size", "LargeTrades")
       /\ AmountKnown(policy_call[1].args.trade)
       => policy_call[1].result =
            IF RLt(policy_call[1].args.trade.estimated_amount, RInt(100000))
            THEN Rat(1, 100)
            ELSE IF RLt(policy_call[1].args.trade.estimated_amount, RInt(500000))
            THEN Rat(2, 100)
            ELSE Rat(3, 100)

\* the filter with the threshold 50000 dropped a purchase of unknown amount
\* and one of 15000 and kept the purchase of exactly 50000
C18_Witness ==
    /\ PolicyCalled("filter_trades", "LargeTrades")
    /\ policy[1].min_trade_value = RInt(50000)
    /\ \E i \in 1..Len(policy_call[1].args.trades) :
          /\ IsPurchase(policy_call[1].args.trades[i])
          /\ ~AmountKnown(policy_call[1].args.trades[i])
    /\ \E i \in 1..Len(policy_call[1].result) :
          policy_call[1].result[i].estimated_amount = RInt(50000)
    /\ \A i \in 1..Len(policy_call[1].result) :
          /\ AmountKnown(policy_call[1].result[i])
          /\ RLe(RInt(50000), policy_call[1].result[i].estimated_amount)

(***************************************************************************)
(* What a call of the metrics collector did, read from collector_call.     *)
(***************************************************************************)
OutcomeReported ==
    collector_call # <<>> /\ collector_call[1].op = "record_trade_outcome"

\* the rows of the ticker that had no outcome before the call, by position
\* in the table: a later position is a later recording
OpenBefore(call) ==
    {i \in 1..Len(call.table) :
        /\ call.table[i].ticker = call.args.ticker
        /\ call.table[i].actual_outcome = <<>>}

LastOpenBefore(call) ==
    CHOOSE i \in OpenBefore(call) : \A j \in OpenBefore(call) : j <= i

\* row i after the call is row i before it with the outcome of pnl filled in
Resolved(call, i) ==
    /\ signal_accuracy[i].actual_outcome =
          << IF call.args.pnl_pct.n > 0 THEN "profit"
             ELSE IF call.args.pnl_pct.n < 0 THEN "loss"
             ELSE "breakeven" >>
    /\ signal_accuracy[i].actual_pnl_pct = <<call.args.pnl_pct>>
    /\ signal_accuracy[i] =
          [call.table[i] EXCEPT !.actual_outcome = signal_accuracy[i].actual_outcome,
                                !.actual_pnl_pct = signal_accuracy[i].actual_pnl_pct,
                                !.executed_trade_id = call.args.executed_trade_id]

PriceUnavailableFor(run, ticker) ==
    \E j \in 1..Len(run.filtered_trades), H \in SeqRange(holding_periods) :
        /\ run.filtered_trades[j].ticker = ticker
        /\ Matured(run, run.filtered_trades[j], H)
        /\ ~BothPricesAvailable(run.filtered_trades[j], H)

\* C21: after a run a ticker is in the reported failed tickers iff some
\* simulated (trade, holding period) pair of that ticker had an unavailable
\* entry or exit price; a pair discarded only because its exit date is after
\* the day of the run does not put its ticker in the failed set.
C21_FailedTickersLackPrices ==
    last_run # <<>> =>
        \A ticker \in SeqRange(Tickers) :
            ticker \in last_run[1].ret.failed_tickers
                <=> PriceUnavailableFor(last_run[1], ticker)

\* the sum of total_trades over the reports of the holding periods
PeriodTotal(ret) ==
    RSum([i \in 1..Len(holding_periods) |->
            RInt(ret.metrics_by_holding_period[holding_periods[i]].total_trades)]).n

\* the counts a run reports agree with the number of results it collected
CountsAgree(run) ==
    /\ run.ret.successful_trades = Len(run.all_results)
    /\ run.ret.overall_metrics.total_trades = Len(run.all_results)
    /\ PeriodTotal(run.ret) = Len(run.all_results)

\* C22 as stated: the returned raw_results holds every result of the run,
\* its length being overall_metrics.total_trades, successful_trades and the
\* sum of total_trades over the per-period reports, however many there are.
C22_RawResultsHoldEveryResult ==
    last_run # <<>> =>
        /\ CountsAgree(last_run[1])
        /\ last_run[1].ret.raw_results = last_run[1].all_results

\* C22: successful_trades, overall_metrics.total_trades and the sum of
\* total_trades over the per-period reports all equal the number of results
\* of the run, and raw_results holds the first 100 of them, in order (all of
\* them when there are at most 100).
C22_RawResultsHoldFirstHundred ==
    last_run # <<>> =>
        /\ CountsAgree(last_run[1])
        /\ Len(last_run[1].ret.raw_results)
              = (IF Len(last_run[1].all_results) < RawLimit
                 THEN Len(last_run[1].all_results) ELSE RawLimit)
        /\ \A i \in 1..Len(last_run[1].ret.raw_results) :
              last_run[1].ret.raw_results[i] = last_run[1].all_results[i]

\* a run that collected more than 100 results over several holding periods
C22_Witness ==
    /\ last_run # <<>>
    /\ Len(last_run[1].all_results) > RawLimit
    /\ Len(last_run[1].ret.raw_results) = RawLimit
    /\ Len(holding_periods) > 1
    /\ last_run[1].ret.overall_metrics.total_trades > RawLimit

\* the disclosure date lies in [start, end], a missing end of the range
\* leaving that side open
InRange(run, row) ==
    /\ run.start_date # <<>> => run.start_date[1] <= row.disclosure_date
    /\ run.end_date # <<>> => row.disclosure_date <= run.end_date[1]

\* policy.filter applied to the disclosures of the range in ascending
\* disclosure-date order
FilteredInRange(run) ==
    filter_trades(run.strategy, _load_trades(run.start_date, run.end_date))

\* the first n elements, all of them when there are fewer
FirstN(seq, n) == SubSeq(seq, 1, IF n < Len(seq) THEN n ELSE Len(seq))

\* C23: the trades a run simulates are the first max_trades elements (all
\* when max_trades is not supplied) of policy.filter applied to the
\* disclosures dated within [start, end] inclusive, in ascending
\* disclosure-date order; for a supplied max_trades = N at most N trades
\* are simulated.
C23_SimulatedTrades ==
    last_run # <<>> =>
        LET run == last_run[1]
            full == FilteredInRange(run)
        IN  /\ \A i \in 1..Len(full) : InRange(run, full[i])
            /\ \A i, j \in 1..Len(full) :
                  i < j => full[i].disclosure_date <= full[j].disclosure_date
            /\ SeqRange(full) =
                  SeqRange(filter_trades(run.strategy,
                                         SelectSeq(db, LAMBDA row : InRange(run, row))))
            /\ run.filtered_trades =
                  (IF run.max_trades = <<>> THEN full
                   ELSE FirstN(full, run.max_trades[1]))
            /\ run.max_trades # <<>> =>
                  Len(run.filtered_trades) <= run.max_trades[1]

\* C_i = r_1 + ... + r_i, each sum taken on its own
Cumulative(returns) ==
    [i \in 1..Len(returns) |-> RSum(SubSeq(returns, 1, i))]

\* dd is the greatest of C_j - C_i over the steps j <= i
GreatestFall(C, dd) ==
    /\ \E i \in 1..Len(C) : \E j \in 1..i : dd = RSub(C[j], C[i])
    /\ \A i \in 1..Len(C) : \A j \in 1..i : RLe(RSub(C[j], C[i]), dd)

\* C24: for a non-empty sequence of returns, max_drawdown is the maximum
\* over the steps i of (the greatest cumulative sum up to i) minus the
\* cumulative sum at i, the sums being additive; it is never negative and
\* is 0 when no return is negative.
C24_MaxDrawdown ==
    (m_report # <<>> /\ ReturnsOf(m_results) # <<>>) =>
        /\ \E C \in {Cumulative(ReturnsOf(m_results))} :
              GreatestFall(C, m_report[1].max_drawdown)
        /\ RLe(Zero, m_report[1].max_drawdown)
        /\ (\A i \in 1..Len(m_results) :
                m_results[i].return_pct # None => RLe(Zero, m_results[i].return_pct))
              => m_report[1].max_drawdown = Zero

\* a gain, a larger loss and a recovery above the first peak: the drawdown
\* is the fall from the first peak, not the fall to the last sum
C24_Witness ==
    /\ m_report # <<>>
    /\ ReturnsOf(m_results) = <<RInt(2), RInt(-3), RInt(5)>>
    /\ m_report[1].max_drawdown = RInt(3)

\* every key was fetched once since the cache was last cleared, and its
\* answer, a price or None, is the cached one
FetchedOnce(cache, fetches) ==
    /\ DOMAIN fetches = DOMAIN cache
    /\ \A key \in DOMAIN fetches :
          /\ fetches[key] = 1
          /\ cache[key] = FetchPrice(key[1], key[2])

\* the prices of a result are the cached answers for its two keys
PricesFrom(cache, result) ==
    /\ CacheKey(result.ticker, result.entry_date) \in DOMAIN cache
    /\ CacheKey(result.ticker, result.exit_date) \in DOMAIN cache
    /\ result.entry_price = cache[CacheKey(result.ticker, result.entry_date)]
    /\ result.exit_price = cache[CacheKey(result.ticker, result.exit_date)]

\* C25: between clear_cache calls the price source is queried at most once
\* for each (ticker, date): the first answer, None included, is cached, the
\* prices a run uses are the cached answers, and a run neither changes nor
\* removes an entry the cache already had.
C25_OneFetchPerKey ==
    [][/\ FetchedOnce(price_cache', fetched')
       /\ last_run' # last_run =>
             /\ \A key \in DOMAIN price_cache :
                   /\ key \in DOMAIN price_cache'
                   /\ price_cache'[key] = price_cache[key]
             /\ \A i \in 1..Len(last_run'[1].all_results) :
                   PricesFrom(price_cache', last_run'[1].all_results[i])]_vars

\* a run answered from the cache alone, the cache holding an unavailable
\* answer, at least one price, and no key fetched twice
C25_Witness ==
    /\ last_run # <<>>
    /\ last_run[1].from_cache
    /\ last_run[1].all_results # <<>>
    /\ \E key \in DOMAIN price_cache : price_cache[key] = None
    /\ \A key \in DOMAIN fetched : fetched[key] = 1

\* the days with a price that are at most 7 days from the date
WithinSevenDays(ticker, date) ==
    {day \in oracle.dates[ticker] : Abs(day - date) <= Window}

\* the answer to a lookup that did not raise: the price of the date when the
\* source has it; otherwise the price of a nearest day of the window; None
\* when the window has no day
Resolves(ticker, date, window, price) ==
    IF date \in oracle.dates[ticker] THEN price = Close(ticker, date)
    ELSE IF window = {} THEN price = None
    ELSE \E day \in window :
            /\ price = Close(ticker, day)
            /\ \A other \in window : Abs(day - date) <= Abs(other - date)

\* C26: a price lookup for date d gives the price of d when the source has
\* d; otherwise the price of an available date within 7 days of d with no
\* other available date of the window strictly closer to d; and None, not
\* an error, when no date within 7 days of d is available.
C26_PriceResolution ==
    \A key \in DOMAIN price_cache :
        key \notin oracle.raises =>
            Resolves(key[1], key[2], WithinSevenDays(key[1], key[2]),
                     price_cache[key])

\* the names of a ranking
Ranked(politician_performance) ==
    {politician_performance[i][1] : i \in 1..Len(politician_performance)}

SizedOrderValidated ==
    /\ Called("validate_trade")
    /\ "sized" \in DOMAIN risk_call[1]

\* C28: when position sizing returns a quantity q > 0 for a balance, a
\* price > 0 and a count of open positions, validate_trade of q at that
\* price with the same balance and count returns (valid, no reason).
C28_SizedOrderIsValid ==
    SizedOrderValidated => risk_call[1].result = Return(<< TRUE, <<>> >>)

\* C30: for an executed trade whose status is not 'open', should_exit_trade
\* returns (no exit, no reason) at every price; for an open trade it returns
\* what should_exit_position returns for a position with the same entry
\* price at the same current price.
C30_ClosedTradeNeverExits ==
    Called("should_exit_trade") =>
        \E trade \in {risk_call[1].args.trade} :
            IF trade.status # "open"
            THEN risk_call[1].result = Return(<< FALSE, <<>> >>)
            ELSE risk_call[1].result =
                    should_exit_position(
                        risk[1],
                        Position(trade.ticker, trade.quantity, trade.entry_price),
                        risk_call[1].args.current_price)

\* entry 100, target 0.20, stop -0.10: a closed trade is not exited at 90,
\* the price at which an open position is stopped out
C30_Witness ==
    /\ Called("should_exit_trade")
    /\ risk[1].config.profit_threshold = Rat(1, 5)
    /\ risk[1].config.stop_loss = Rat(-1, 10)
    /\ risk_call[1].args.trade.status = "closed"
    /\ risk_call[1].args.trade.entry_price = RInt(100)
    /\ risk_call[1].args.current_price = RInt(90)
    /\ risk_call[1].result = Return(<< FALSE, <<>> >>)
    /\ should_exit_position(risk[1], Position("AAPL", 100, RInt(100)), RInt(90))
          = Return(<< TRUE, <<"Stop loss triggered at -10.00%">> >>)

\* C29: under the dollar-weighted and the track-record method, analyze
\* returns a signal and does not raise, whatever disclosures are in the
\* window, disclosures without an estimated amount included.
C29_AnalyzeDoesNotRaise ==
    (Analyzed /\ MethodUsed(generator[1]) = "dollar_weighted") =>
        /\ Returned
        /\ signal_call[1].result.returns.signal \in {"BUY", "SELL", "HOLD"}

====
